---- MODULE Spec2Model ----
(***************************************************************************)
(* Model of the temporal feature-enrichment pipeline of src/main.py        *)
(* (enrich_data_full and the engines it calls).                            *)
(*                                                                         *)
(* Conventions                                                             *)
(*  - A calendar date is an integer day number, 0 = 2024-01-01 (a Monday); *)
(*    all dates of the model lie in 2024.  A timestamp is <<day, hour>>    *)
(*    in Moscow wall-clock time.                                           *)
(*  - Category labels are the source's labels transliterated to ASCII      *)
(*    ("da"/"net" for 'да'/'нет', "konec" for 'конец', ...).               *)
(*  - A row is a record whose fields are the columns the table has so far; *)
(*    a step adds its columns to every row.                                *)
(***************************************************************************)
EXTENDS Integers, Sequences, FiniteSets, TLC

VARIABLES
    pc,        \* position of enrich_data_full / of the driver of a component
    df,        \* the running record table: a sequence of rows
    ru_hol,    \* the holiday calendar (set of dates) the holidays package supplies
    cal_df,    \* cal_df of add_calendar_compact_features: date -> calendar row
    wth_arg,   \* the table add_weather_compact_cats was called with
    mag_file,  \* the geomagnetic files: unreadable, or date -> daily Kp
    cache_file,   \* region -> the persisted weather artifact of CACHE_DIR
    todo,         \* region_ranges rows the weather loop has still to visit
    all_weather,  \* all_weather of enrich_data_full
    call,         \* the last prefetch_region_weather_multi_station call
    events_file,  \* the rows of the events TSV file: date, event text, category
    ev_raw,       \* ev_raw of build_news_compact_features: the catalog as loaded
    ev,           \* the event catalog build_news_compact_features works on
    audit,        \* audit_print of the run and how the auditing pass ended
    news_daily,   \* msk_day -> the daily series and categories of the news step
    sky,          \* (local day, timezone) -> what the astronomical computation gives
    astro_cache,  \* the lru_cache of get_astro_cats_only: entries, hits, misses
    astro_ret     \* the last call of get_astro_cats_only: key, result, hit or miss

wx_vars == <<cache_file, todo, all_weather, call>>
news_vars == <<events_file, ev_raw, ev, audit, news_daily>>
astro_vars == <<sky, astro_cache, astro_ret>>
vars == <<pc, df, ru_hol, cal_df, wth_arg, mag_file, wx_vars, news_vars, astro_vars>>

\* df[new columns] = ...: the row with the columns of new added or overwritten
WithCols(row, new) == new @@ row

-----------------------------------------------------------------------------
(* Bounds of the model                                                     *)

MaxSpan == 6      \* the record dates of one run lie in a window of MaxSpan days
MaxHol  == 2      \* at most MaxHol holidays in the window
MaxRecs == 2      \* number of input records of a run
MaxCalls == 4     \* calls of the memoized astronomical function in one run
maxsize == 2      \* entries the memo holds before it evicts (50000 in the program)
WxSpan  == 3      \* the record dates of a weather run lie in a window of WxSpan days
WxRecs  == 3      \* records of a weather run over two regions
PfSpan  == 2      \* the requested weather spans lie in a window of PfSpan days
MaxStations == 2  \* stations of a region (entries of its coords_list)

-----------------------------------------------------------------------------
(* Civil dates of 2024                                                     *)

MonthLen == <<31, 29, 31, 30, 31, 30, 31, 31, 30, 31, 30, 31>>

RECURSIVE MonthFrom(_, _)
MonthFrom(n, m) == IF n < MonthLen[m] THEN m ELSE MonthFrom(n - MonthLen[m], m + 1)

RECURSIVE DayFrom(_, _)
DayFrom(n, m) == IF n < MonthLen[m] THEN n + 1 ELSE DayFrom(n - MonthLen[m], m + 1)

\* d.dt.month, d.dt.day, d.dt.days_in_month, d.dt.dayofweek (0 = Monday), d.dt.quarter
month(d)         == MonthFrom(d, 1)
day(d)           == DayFrom(d, 1)
days_in_month(d) == MonthLen[month(d)]
dayofweek(d)     == d % 7
quarter(d)       == ((month(d) - 1) \div 3) + 1

Abs(x)    == IF x < 0 THEN -x ELSE x
Min2(a, b) == IF a <= b THEN a ELSE b
Max2(a, b) == IF a >= b THEN a ELSE b
SetMin(S) == CHOOSE x \in S : \A y \in S : x <= y
SetMax(S) == CHOOSE x \in S : \A y \in S : x >= y

\* Day numbers of the dates the scenarios name
D_Mar07 == 31 + 29 + 6
D_Mar20 == 31 + 29 + 19
D_Apr29 == 31 + 29 + 31 + 28

-----------------------------------------------------------------------------
(* Region / timezone resolver                                              *)

\* REGION_GENT_TO_NOM: genitive display name -> canonical name, identity if unmapped
region_std_of(region) ==
    CASE region = "Primorskom krae"    -> "Primorskiy kray"
      [] region = "Moskovskoy oblasti" -> "Moskovskaya oblast"
      [] OTHER                         -> region

\* region_to_tz: the fallback table, Europe/Moscow for an unknown region.
region_to_tz(region_name) ==
    CASE region_name = "Primorskiy kray"         -> "Asia/Vladivostok"
      [] region_name = "Khabarovskiy kray"       -> "Asia/Vladivostok"
      [] region_name = "Kaliningradskaya oblast" -> "Europe/Kaliningrad"
      [] OTHER                                   -> "Europe/Moscow"

\* Hours a zone is ahead of Moscow (fixed all through 2024).
TzOffset(tz) ==
    CASE tz = "Asia/Vladivostok"   -> 7
      [] tz = "Europe/Kaliningrad" -> -1
      [] OTHER                     -> 0

\* A missing date
NaT == 0 - 2000000

DigitVal ==
    [c \in {"0", "1", "2", "3", "4", "5", "6", "7", "8", "9"} |->
        CASE c = "0" -> 0 [] c = "1" -> 1 [] c = "2" -> 2 [] c = "3" -> 3 [] c = "4" -> 4
          [] c = "5" -> 5 [] c = "6" -> 6 [] c = "7" -> 7 [] c = "8" -> 8 [] c = "9" -> 9]

\* The number the two characters s[i], s[i+1] spell, -1 when they are not digits
two_digits(s, i) ==
    IF s[i] \in DOMAIN DigitVal /\ s[i + 1] \in DOMAIN DigitVal
    THEN 10 * DigitVal[s[i]] + DigitVal[s[i + 1]]
    ELSE 0 - 1

\* The first day of month m of 2024 as a day number
RECURSIVE MonthStart(_)
MonthStart(m) == IF m = 1 THEN 0 ELSE MonthStart(m - 1) + MonthLen[m - 1]

\* pd.to_datetime(x, errors='coerce') of one value. A Timestamp is the pair
\* <<day, hour>> and stays; a text is a sequence of characters: 'YYYY-MM-DD HH:MM'
\* of 2024 is parsed to its Timestamp, any other text gives NaT
to_datetime(x) ==
    IF Len(x) = 2 THEN x
    ELSE IF /\ Len(x) = 16
            /\ SubSeq(x, 1, 5) = <<"2", "0", "2", "4", "-">>
            /\ x[8] = "-" /\ x[11] = " " /\ x[14] = ":"
            /\ two_digits(x, 6) \in 1..12
            /\ two_digits(x, 9) \in 1..MonthLen[two_digits(x, 6)]
            /\ two_digits(x, 12) \in 0..23
            /\ two_digits(x, 15) \in 0..59
         THEN <<MonthStart(two_digits(x, 6)) + two_digits(x, 9) - 1, two_digits(x, 12)>>
         ELSE <<NaT, NaT>>

\* base_msk.dt.normalize(): the Moscow calendar day of a timestamp
msk_day_of(ts) == ts[1]

\* tz_convert(tz).dt.normalize(): the calendar day in the record's own zone
day_local_of(ts, tz) ==
    LET h == ts[2] + TzOffset(tz)
    IN  IF ts[1] = NaT THEN NaT
        ELSE IF h >= 24 THEN ts[1] + 1 ELSE IF h < 0 THEN ts[1] - 1 ELSE ts[1]

-----------------------------------------------------------------------------
(* Calendar engine: the per-date table cal_df                              *)

is_holiday(x) == IF x \in ru_hol THEN 1 ELSE 0

\* d_prev: rows since the last holiday at or before x inside the table, 9999 if none
d_prev(lo, x) ==
    LET H == {h \in lo..x : h \in ru_hol}
    IN  IF H = {} THEN 9999 ELSE x - SetMax(H)

\* d_next: rows until the next holiday at or after x inside the table, 9999 if none
d_next(x, hi) ==
    LET H == {h \in x..hi : h \in ru_hol}
    IN  IF H = {} THEN 9999 ELSE SetMin(H) - x

nearest_delta(lo, x, hi) ==
    IF is_holiday(x) = 1 THEN 0
    ELSE LET a == d_prev(lo, x)
             b == d_next(x, hi)
         IN  IF Abs(a) <= Abs(b) THEN a ELSE b

prox_cat(v) ==
    CASE v = 0  -> "H0"
      [] v = -1 -> "H-1"
      [] v = -2 -> "H-2"
      [] v = 1  -> "H+1"
      [] v = 2  -> "H+2"
      [] OTHER  -> "net_ryadom"

is_weekend(x) == IF dayofweek(x) >= 5 THEN 1 ELSE 0
is_nonwork(x) == Max2(is_weekend(x), is_holiday(x))

\* rolling(3, min_periods=3).sum().eq(3): the three rows ending at x, all in the table
end3(lo, x) == x - 2 >= lo /\ \A y \in (x - 2)..x : is_nonwork(y) = 1

\* end3 | end3.shift(1, fill_value=False) | end3.shift(2, fill_value=False)
long_any(lo, x) ==
    \/ end3(lo, x)
    \/ (x - 1 >= lo /\ end3(lo, x - 1))
    \/ (x - 2 >= lo /\ end3(lo, x - 2))

yesno(b) == IF b THEN "da" ELSE "net"

blue_monday(lo, x) ==
    yesno(dayofweek(x) = 0 /\ x - 1 >= lo /\ long_any(lo, x - 1))

build_cal_df(lo, hi) ==
    [x \in lo..hi |->
        [is_holiday   |-> is_holiday(x),
         holiday_prox |-> prox_cat(nearest_delta(lo, x, hi)),
         is_nonwork   |-> is_nonwork(x),
         long_weekend |-> yesno(long_any(lo, x)),
         blue_monday  |-> blue_monday(lo, x)]]

-----------------------------------------------------------------------------
(* Calendar engine: the per-record features                                *)

map_weekday_bucket(x) ==
    IF x \in {0, 1, 2} THEN "pn-sr"
    ELSE IF x \in {3, 4} THEN "cht-pt"
    ELSE IF x = 5 THEN "sb" ELSE "vs"

\* first_dom.dt.dayofweek: weekday of the first day of d's month
first_dom_dow(d) == (d - (day(d) - 1)) % 7

week_of_month(d) ==
    LET wom == 1 + ((day(d) + first_dom_dow(d) - 1) \div 7)
    IN  Min2(Max2(wom, 1), 5)

month_phase_mid_as_end(dd) ==
    IF dd <= 10 THEN "nachalo" ELSE IF dd < 20 THEN "seredina" ELSE "konec"

month_phase(dd) ==
    IF dd <= 10 THEN "nachalo" ELSE IF dd <= 20 THEN "seredina" ELSE "konec"

season(m) ==
    IF m \in {12, 1, 2} THEN "Zima"
    ELSE IF m \in {3, 4, 5} THEN "Vesna"
    ELSE IF m \in {6, 7, 8} THEN "Leto" ELSE "Osen"

day_type(is_h, is_w) ==
    IF is_h = 1 THEN "prazdnik" ELSE IF is_w THEN "vyhodnoy" ELSE "rabochiy"

school_break_ext(d) ==
    LET m == month(d)
        dd == day(d)
    IN  IF m = 1 /\ dd <= 9 THEN "zima"
        ELSE IF m = 3 /\ dd >= 25 THEN "vesna"
        ELSE IF (m = 10 /\ dd >= 26) \/ (m = 11 /\ dd <= 4) THEN "osen"
        ELSE IF m \in {6, 7, 8} THEN "leto" ELSE "net"

\* np.minimum(abs(day - k), abs(day - k - d.dt.days_in_month))
dist_to(k, d) == Min2(Abs(day(d) - k), Abs(day(d) - k - days_in_month(d)))
min_dist(d)   == Min2(dist_to(10, d), dist_to(25, d))

payday_prox_cat(dv) ==
    IF dv = 0 THEN "den vyplaty"
    ELSE IF dv <= 2 THEN "ryadom"
    ELSE IF dv <= 7 THEN "nedelya"
    ELSE "daleko"

\* The date column add_calendar_compact_features reads: date_col_msk when the
\* table has it (it always has, in enrich_data_full), else date_col_local.
cal_key(row) == IF "msk_day" \in DOMAIN row THEN row.msk_day ELSE row.day_local

CalFeaturesAt(d, tab) ==
        [cal_weekday_4        |-> map_weekday_bucket(dayofweek(d)),
         cal_week_of_month    |-> week_of_month(d),
         cal_month_phase3     |-> month_phase(day(d)),
         cal_quarter          |-> quarter(d),
         cal_season           |-> season(month(d)),
         cal_holiday_window5  |-> tab[d].holiday_prox,
         cal_long_weekend     |-> tab[d].long_weekend,
         cal_day_type3        |-> day_type(tab[d].is_holiday, dayofweek(d) >= 5),
         cal_is_blue_monday   |-> tab[d].blue_monday,
         cal_school_break_ext |-> school_break_ext(d),
         cal_payday_proximity |-> payday_prox_cat(min_dist(d))]

CalFeatures(row, tab) == CalFeaturesAt(cal_key(row), tab)

CalCols(row) ==
    [c \in {"cal_weekday_4", "cal_week_of_month", "cal_month_phase3", "cal_quarter",
            "cal_season", "cal_holiday_window5", "cal_long_weekend", "cal_day_type3",
            "cal_is_blue_monday", "cal_school_break_ext", "cal_payday_proximity"}
        |-> row[c]]

-----------------------------------------------------------------------------
(* Weather engine: add_weather_compact_cats                                *)

\* A missing number (NaN); a missing category is the label "NaN"
NaN == 0 - 1000000

\* Order of the region_std categories (alphabetical in the source's Cyrillic)
RegionRank(r) ==
    CASE r = "Kaliningradskaya oblast" -> 1
      [] r = "Moskva"                  -> 2
      [] r = "Primorskiy kray"         -> 3
      [] r = "Khabarovskiy kray"       -> 4
      [] OTHER                         -> 5

SortKey(row) == RegionRank(row.region_std) * 1000 + row.day_local

\* sort_values([region_col, date_col]): rows with equal keys keep their order
RECURSIVE sort_values(_)
sort_values(s) ==
    IF Len(s) <= 1 THEN s
    ELSE LET rest == sort_values(SubSeq(s, 1, Len(s) - 1))
             x    == s[Len(s)]
             n    == Cardinality({j \in 1..Len(rest) : SortKey(rest[j]) <= SortKey(x)})
         IN  SubSeq(rest, 1, n) \o <<x>> \o SubSeq(rest, n + 1, Len(rest))

\* drop_duplicates(): the first occurrence of every row, in order
RECURSIVE drop_duplicates(_)
drop_duplicates(s) ==
    IF s = <<>> THEN <<>>
    ELSE LET init == drop_duplicates(SubSeq(s, 1, Len(s) - 1))
             x    == s[Len(s)]
         IN  IF \E j \in 1..Len(init) : init[j] = x THEN init ELSE Append(init, x)

\* 10000 * w ** 0.16 for the wind speeds of the modelled weather
Pow016E4(w) == CASE w = 10 -> 14454 [] w = 30 -> 17232 [] OTHER -> 10000

\* feels_like(t, w), in 1/10000 degree
feels_like(t, w) ==
    IF t > 10 \/ w < 5 THEN t * 10000
    ELSE 131200 + 6215 * t - ((1137 * Pow016E4(w)) \div 100)
         + ((3965 * t * Pow016E4(w)) \div 10000)

complex_weather_row(r) ==
    LET p   == r.precipitation_mm
        w   == r.wspd_kmh
        tfl == feels_like(r.tavg, r.wspd_kmh)
    IN  IF p > 5 \/ w > 25 \/ tfl < -200000 THEN "ekstremalnaya"
        ELSE IF p > 0 THEN "osadki" ELSE "spokoynaya"

\* groupby(region_col)[col].shift(1): index of the previous row of the same
\* region in the table, 0 if there is none
shift1(t, i) ==
    LET P == {j \in 1..(i - 1) : t[j].region_std = t[i].region_std}
    IN  IF P = {} THEN 0 ELSE SetMax(P)

\* out[col] - out.groupby(region_col)[col].shift(1), and groupby(...)[col].diff()
diff(t, i, col) == IF shift1(t, i) = 0 THEN NaN ELSE t[i][col] - t[shift1(t, i)][col]

cut_temp_change(v) ==
    IF v = NaN THEN "NaN"
    ELSE IF v < -5 THEN "silnoe poholodanie"
    ELSE IF v < -2 THEN "poholodanie"
    ELSE IF v < 2 THEN "bez izmeneniy"
    ELSE IF v < 5 THEN "poteplenie" ELSE "silnoe poteplenie"

precipitation_change(t, i) ==
    LET cur  == t[i].precipitation_mm
        prev == IF shift1(t, i) = 0 THEN 0 ELSE t[shift1(t, i)].precipitation_mm
    IN  IF prev <= 0 /\ cur > 0 THEN "Nachalis osadki"
        ELSE IF prev > 0 /\ cur <= 0 THEN "Osadki prekratilis"
        ELSE IF cur > prev THEN "Osadki usililis"
        ELSE IF cur < prev THEN "Osadki oslabli" ELSE "Bez izmeneniy"

cut_pressure_change(v) ==
    IF v = NaN THEN "NaN"
    ELSE IF v < -5 THEN "silnoe padenie"
    ELSE IF v < -1 THEN "padenie"
    ELSE IF v < 1 THEN "stabilno"
    ELSE IF v < 5 THEN "rost" ELSE "silnyy rost"

cut_wind_change(v) ==
    IF v = NaN THEN "NaN"
    ELSE IF v < -10 THEN "silno stih"
    ELSE IF v < -3 THEN "stih"
    ELSE IF v < 3 THEN "bez izmeneniy"
    ELSE IF v < 10 THEN "usililsya" ELSE "silno usililsya"

\* The columns computed row by row on the sorted table.  The table spans one
\* year, so the expanding mean of the same month of prior years is missing for
\* every row: the seasonal anomaly category is NaN and __is_extreme_temp is 0.
RowCats(t, i) ==
    LET cw == complex_weather_row(t[i])
    IN  [wth_seasonal_temp_anomaly_cat |-> "NaN",
         wth_temp_change_cat          |-> cut_temp_change(diff(t, i, "tavg")),
         wth_precipitation_change_cat |-> precipitation_change(t, i),
         wth_pressure_change_cat      |-> cut_pressure_change(diff(t, i, "pres")),
         wth_wind_speed_change_cat    |-> cut_wind_change(diff(t, i, "wspd_kmh")),
         wth_complex_weather_cat      |-> cw,
         is_bad_weather               |-> IF cw # "spokoynaya" THEN 1 ELSE 0,
         is_extreme_temp              |-> 0]

\* out[base_cols]
BaseCols(row) ==
    [region_std      |-> row.region_std,
     day_local       |-> row.day_local,
     msk_day         |-> row.msk_day,
     is_bad_weather  |-> row.is_bad_weather,
     is_extreme_temp |-> row.is_extreme_temp]

\* base.groupby(region_col)[col].shift(1).rolling(5, min_periods=1).sum().fillna(0):
\* the shift is taken inside the region, the window of 5 rows over the whole column
RECURSIVE SumShifted(_, _, _, _)
SumShifted(base, col, lo, k) ==
    IF k < lo THEN 0
    ELSE (IF shift1(base, k) = 0 THEN 0 ELSE base[shift1(base, k)][col])
         + SumShifted(base, col, lo, k - 1)

roll5(base, col, k) == SumShifted(base, col, Max2(1, k - 4), k)

cut_last5(x, top) ==
    IF x <= 0 THEN "0 dney"
    ELSE IF x <= 1 THEN "1 den"
    ELSE IF x <= 3 THEN "2-3 dnya"
    ELSE IF x <= 6 THEN top ELSE "NaN"

\* base.groupby(agg_date_col)[col].mean(), as <<sum, count>>
national_mean(base, col, d) ==
    LET R == {k \in 1..Len(base) : base[k].msk_day = d}
        RECURSIVE Sum(_)
        Sum(S) == IF S = {} THEN 0
                  ELSE LET k == CHOOSE k \in S : TRUE IN base[k][col] + Sum(S \ {k})
    IN  <<Sum(R), Cardinality(R)>>

\* pd.cut(mean, bins=[-0.1, 0.1, 0.3, 0.6, 1.1])
cut_national(m) ==
    IF 10 * m[1] <= m[2] THEN "lokalno"
    ELSE IF 10 * m[1] <= 3 * m[2] THEN "mestami"
    ELSE IF 10 * m[1] <= 6 * m[2] THEN "mnogie regiony" ELSE "po vsey strane"

\* out.merge(base[[region, date, last5 cats]], on=[region, date], how='left'):
\* one output row per row of base with the key of the left row
RECURSIVE MatchesFrom(_, _, _)
MatchesFrom(row, base, k) ==
    IF k > Len(base) THEN <<>>
    ELSE IF base[k].region_std = row.region_std /\ base[k].day_local = row.day_local
         THEN <<WithCols(row, [wth_bad_weather_last5_cat  |-> base[k].wth_bad_weather_last5_cat,
                               wth_extreme_temp_last5_cat |-> base[k].wth_extreme_temp_last5_cat])>>
              \o MatchesFrom(row, base, k + 1)
         ELSE MatchesFrom(row, base, k + 1)

RECURSIVE merge_base(_, _, _)
merge_base(out, base, i) ==
    IF i > Len(out) THEN <<>>
    ELSE MatchesFrom(out[i], base, 1) \o merge_base(out, base, i + 1)

add_weather_compact_cats(t) ==
    LET sorted == sort_values(t)
        out    == [i \in 1..Len(sorted) |-> WithCols(sorted[i], RowCats(sorted, i))]
        base0  == sort_values(drop_duplicates([i \in 1..Len(out) |-> BaseCols(out[i])]))
        base   == [k \in 1..Len(base0) |->
                     WithCols(base0[k],
                        [wth_bad_weather_last5_cat  |->
                            cut_last5(roll5(base0, "is_bad_weather", k), "4-5 dney"),
                         wth_extreme_temp_last5_cat |->
                            cut_last5(roll5(base0, "is_extreme_temp", k), "4+ dney")])]
        joined == merge_base(out, base, 1)
    IN  [i \in 1..Len(joined) |->
            WithCols(joined[i],
               [wth_national_bad_weather_scale_cat  |->
                    cut_national(national_mean(base0, "is_bad_weather", joined[i].msk_day)),
                wth_national_temp_anomaly_scale_cat |->
                    cut_national(national_mean(base0, "is_extreme_temp", joined[i].msk_day))])]

\* Daily weather of one (region, day) as the weather source returns it
Weather(kind) ==
    CASE kind = "calm"  -> [tavg |-> 12, precipitation_mm |-> 0,  wspd_kmh |-> 3,  pres |-> 1015]
      [] kind = "rain"  -> [tavg |-> 8,  precipitation_mm |-> 3,  wspd_kmh |-> 10, pres |-> 1008]
      [] kind = "storm" -> [tavg |-> 2,  precipitation_mm |-> 12, wspd_kmh |-> 30, pres |-> 995]

WeatherKinds == {"calm", "rain", "storm"}

\* The (region_std, day_local) keys of a table
KeysOf(t) == {<<t[i].region_std, t[i].day_local>> : i \in 1..Len(t)}

\* df.merge(weather_features, on=['region_std','day_local'], how='left')
merge_weather(t, wf) ==
    [i \in 1..Len(t) |-> WithCols(t[i], Weather(wf[<<t[i].region_std, t[i].day_local>>]))]

-----------------------------------------------------------------------------
(* Weather engine: prefetch_region_weather_multi_station and its cache     *)

\* A persisted artifact: no file, a file that cannot be read, or a table
\* day -> <<sum, count>> of tavg over the stations that reported the day
NoFile      == [kind |-> "none",    rows |-> <<>>]
Unreadable  == [kind |-> "corrupt", rows |-> <<>>]
Table(rows) == [kind |-> "table",   rows |-> rows]

\* pd.DataFrame(): the empty table
EmptyTable == <<>>

\* REGION_COORDS_MASTER.get(region): the station numbers of a region
REGION_COORDS_MASTER(region) ==
    CASE region = "Moskva"          -> 1..MaxStations
      [] region = "Primorskiy kray" -> {1}
      [] OTHER                      -> {}

\* tavg a station reports (the same on every day)
StationTavg(k) == 10 * k

\* A cache test that looks at the first cached day only
cache_covers_start_only(art, start, end) ==
    /\ art.kind = "table"
    /\ DOMAIN art.rows # {}
    /\ SetMin(DOMAIN art.rows) <= start

\* cached.min() <= start_date and cached.max() >= end_date; a file without a
\* readable day_local column raises inside the try and counts as not covering
cache_covers(art, start, end) ==
    /\ art.kind = "table"
    /\ DOMAIN art.rows # {}
    /\ SetMin(DOMAIN art.rows) <= start
    /\ SetMax(DOMAIN art.rows) >= end

\* Daily(point, start_dt - 1 day, end_dt).fetch() of station k: the days the
\* station has, or nothing when the fetch raises or returns no data
station_days(o, start, end) ==
    IF o.kind = "data" THEN (start - 1)..o.last ELSE {}

\* The stations whose table joins weather_dfs
good_stations(outcomes, start, end) ==
    {k \in DOMAIN outcomes : station_days(outcomes[k], start, end) # {}}

RECURSIVE SumTavg(_)
SumTavg(K) == IF K = {} THEN 0
              ELSE LET k == CHOOSE k \in K : TRUE IN StationTavg(k) + SumTavg(K \ {k})

\* pd.concat(weather_dfs).groupby(level=0).mean()
avg_weather(outcomes, start, end) ==
    LET G == good_stations(outcomes, start, end)
        days == UNION {station_days(outcomes[k], start, end) : k \in G}
    IN  [d \in days |->
            LET K == {k \in G : d \in station_days(outcomes[k], start, end)}
            IN  <<SumTavg(K), Cardinality(K)>>]

\* avg_weather.to_parquet(cache_file) inside try/except: the artifact after it
written(art, fresh, write) ==
    IF write = "ok" THEN Table(fresh)
    ELSE IF write = "failed" THEN art
    ELSE Unreadable

\* avg_weather.to_parquet(cache_file) inside try/except: the save succeeds, or
\* raises before the file is touched, or raises part-way and leaves a file
\* that cannot be read
SaveOutcomes == {"ok", "failed", "torn"}

\* The call when a raising station is not caught
prefetch_uncaught(region, start, end, art, outcomes, write) ==
    IF cache_covers(art, start, end)
    THEN [ret |-> art.rows, hit |-> TRUE, stations |-> <<>>, write |-> "none",
          cache |-> art, raised |-> FALSE]
    ELSE IF \E k \in DOMAIN outcomes : outcomes[k].kind = "raise"
    THEN [ret |-> EmptyTable, hit |-> FALSE, stations |-> outcomes, write |-> "none",
          cache |-> art, raised |-> TRUE]
    ELSE IF good_stations(outcomes, start, end) = {}
    THEN [ret |-> EmptyTable, hit |-> FALSE, stations |-> outcomes, write |-> "none",
          cache |-> art, raised |-> FALSE]
    ELSE [ret |-> avg_weather(outcomes, start, end), hit |-> FALSE,
          stations |-> outcomes, write |-> write,
          cache |-> written(art, avg_weather(outcomes, start, end), write),
          raised |-> FALSE]

\* prefetch_region_weather_multi_station(region, start_date, end_date) with the
\* artifact art on disk, the stations answering outcomes and the save ending
\* write: the returned table, whether the cache was used, the artifact after
\* the call, and whether an exception left the function
prefetch(region, start, end, art, outcomes, write) ==
    IF cache_covers(art, start, end)
    THEN [ret |-> art.rows, hit |-> TRUE, stations |-> <<>>, write |-> "none",
          cache |-> art, raised |-> FALSE]
    ELSE IF REGION_COORDS_MASTER(region) = {} \/ good_stations(outcomes, start, end) = {}
    THEN [ret |-> EmptyTable, hit |-> FALSE, stations |-> outcomes, write |-> "none",
          cache |-> art, raised |-> FALSE]
    ELSE [ret |-> avg_weather(outcomes, start, end), hit |-> FALSE,
          stations |-> outcomes, write |-> write,
          cache |-> written(art, avg_weather(outcomes, start, end), write),
          raised |-> FALSE]

NoCall == [region |-> "", start |-> 0, end |-> 0, ret |-> EmptyTable, hit |-> FALSE,
           stations |-> <<>>, write |-> "none", before |-> NoFile]

NoCache == [r \in {"Moskva", "Primorskiy kray"} |-> NoFile]

NoWeatherLoop ==
    /\ cache_file = NoCache
    /\ todo = <<>>
    /\ all_weather = <<>>
    /\ call = NoCall

\* No news step has run
NoNews ==
    /\ events_file = <<>>
    /\ ev_raw = <<>>
    /\ ev = <<>>
    /\ audit = [print |-> FALSE, outcome |-> "none"]
    /\ news_daily = <<>>

\* The memo of get_astro_cats_only as the module import leaves it
NoAstroCache == [entries |-> <<>>, hits |-> 0, misses |-> 0]

\* No astronomical call has been made
NoAstro ==
    /\ sky = <<>>
    /\ astro_cache = NoAstroCache
    /\ astro_ret = [key |-> <<>>, val |-> <<>>, hit |-> FALSE]

-----------------------------------------------------------------------------
(* Geomagnetic engine: add_magnetic_storm_features                         *)

\* Kp is held in units of 1/20, so that the median of two daily values is whole
Kp(x) == 20 * x

NoMagFile == [ok |-> FALSE, Kp_daily |-> <<>>]

\* df.merge(mag_df[['date','Kp_daily']], left_on=date_col_msk, right_on='date', how='left')
merge_kp(t, mag_df) ==
    [i \in 1..Len(t) |->
        WithCols(t[i], [Kp_daily |-> IF t[i].msk_day \in DOMAIN mag_df
                                     THEN mag_df[t[i].msk_day] ELSE NaN])]

\* Ascending sequence of the values v[i], i in I (v a sequence of numbers)
RECURSIVE SortedVals(_, _)
SortedVals(v, I) ==
    IF I = {} THEN <<>>
    ELSE LET i == CHOOSE i \in I : \A j \in I : v[i] <= v[j]
         IN  <<v[i]>> \o SortedVals(v, I \ {i})

\* df['Kp_daily'].median(): NaN is skipped; NaN when no row has a value
median(t) ==
    LET I == {i \in 1..Len(t) : t[i].Kp_daily # NaN}
        v == SortedVals([i \in 1..Len(t) |-> t[i].Kp_daily], I)
        n == Len(v)
    IN  IF n = 0 THEN NaN
        ELSE IF n % 2 = 1 THEN v[(n + 1) \div 2]
        ELSE (v[n \div 2] + v[(n \div 2) + 1]) \div 2

fillna(v, w) == IF v = NaN THEN w ELSE v

\* Every comparison with NaN is false, so NaN falls to the last branch
classify_storm_level(kp) ==
    IF kp # NaN /\ kp <= Kp(4) THEN "spokoyno"
    ELSE IF kp # NaN /\ kp <= Kp(5) THEN "slabaya burya"
    ELSE IF kp # NaN /\ kp <= Kp(6) THEN "umerennaya burya"
    ELSE IF kp # NaN /\ kp <= Kp(8) THEN "silnaya burya"
    ELSE "ekstremalnaya burya"

\* thresholds 1.5 and 0.5 in units of 1/20
classify_change(change) ==
    IF change = NaN THEN "net dannyh"
    ELSE IF change > 30 THEN "rezkiy rost"
    ELSE IF change > 10 THEN "rost"
    ELSE IF change < -30 THEN "rezkoe padenie"
    ELSE IF change < -10 THEN "padenie"
    ELSE "stabilno"

\* Permutations of 1..n that a sort by msk_day may produce (ties in any order)
SortOrders(t) ==
    {p \in [1..Len(t) -> 1..Len(t)] :
        /\ \A i, j \in 1..Len(t) : i # j => p[i] # p[j]
        /\ \A i \in 1..(Len(t) - 1) : t[p[i]].msk_day <= t[p[i + 1]].msk_day}

\* Kp_change = Kp_daily - Kp_daily.shift(1), row against the row before it
Kp_change(t, i) ==
    IF i = 1 \/ t[i].Kp_daily = NaN \/ t[i - 1].Kp_daily = NaN THEN NaN
    ELSE t[i].Kp_daily - t[i - 1].Kp_daily

\* The table after the merge, the imputation, the sort in order p and the two
\* classifications; the helper column Kp_daily is dropped at the end
magnetic_features(t, mag_df, p) ==
    LET m   == merge_kp(t, mag_df)
        med == median(m)
        f   == [i \in 1..Len(m) |-> [m[i] EXCEPT !.Kp_daily = fillna(@, med)]]
        srt == [i \in 1..Len(f) |-> f[p[i]]]
    IN  [i \in 1..Len(srt) |->
            [c \in (DOMAIN srt[i] \ {"Kp_daily"}) \cup
                   {"mag_storm_level_cat", "mag_storm_change_cat"} |->
                IF c = "mag_storm_level_cat" THEN classify_storm_level(srt[i].Kp_daily)
                ELSE IF c = "mag_storm_change_cat" THEN classify_change(Kp_change(srt, i))
                ELSE srt[i][c]]]

\* The except branch: both columns carry the 'unavailable' category
magnetic_unavailable(t) ==
    [i \in 1..Len(t) |->
        WithCols(t[i], [mag_storm_level_cat  |-> "dannye nedostupny",
                        mag_storm_change_cat |-> "dannye nedostupny"])]

-----------------------------------------------------------------------------
(* Inputs                                                                  *)

Anchors == {D_Mar07, D_Mar20 - 1, D_Apr29}
Hours   == {12, 20}
InRegions == {"Moskva", "Primorskom krae"}

RawRow(ts, region) == [business_dt |-> ts, region |-> region]

RawRows(a, b, hours, regions) ==
    {RawRow(<<d, h>>, r) : d \in a..b, h \in hours, r \in regions}

HolidaySets(a) ==
    {H \in SUBSET ((a - 1)..(a + MaxSpan)) : Cardinality(H) <= MaxHol}

-----------------------------------------------------------------------------
(* enrich_data_full, step by step                                          *)

\* Region normalisation, timezone, the timestamp column parsed in place,
\* msk_day and day_local of every record
Localize ==
    /\ pc = "start"
    /\ df' = [i \in 1..Len(df) |->
                LET rs == region_std_of(df[i].region)
                    tz == region_to_tz(rs)
                    ts == to_datetime(df[i].business_dt)
                IN  WithCols(df[i],
                             [region_std  |-> rs,
                              tz          |-> tz,
                              business_dt |-> ts,
                              msk_day     |-> msk_day_of(ts),
                              day_local   |-> day_local_of(ts, tz)])]
    /\ pc' = "localized"
    /\ UNCHANGED <<ru_hol, cal_df, wth_arg, mag_file, wx_vars, news_vars, astro_vars>>

\* df = add_calendar_compact_features(df)
AddCalendar ==
    /\ pc = "localized"
    /\ LET D   == {cal_key(df[i]) : i \in 1..Len(df)}
           tab == build_cal_df(SetMin(D), SetMax(D))
       IN  /\ cal_df' = tab
           /\ df' = [i \in 1..Len(df) |-> WithCols(df[i], CalFeatures(df[i], tab))]
    /\ pc' = "calendar"
    /\ UNCHANGED <<ru_hol, wth_arg, mag_file, wx_vars, news_vars, astro_vars>>

\* The regions' weather tables are fetched and joined onto the records
MergeWeather ==
    /\ pc = "calendar"
    /\ \E wf \in [KeysOf(df) -> WeatherKinds] : df' = merge_weather(df, wf)
    /\ pc' = "wx_merged"
    /\ UNCHANGED <<ru_hol, cal_df, wth_arg, mag_file, wx_vars, news_vars, astro_vars>>

\* df = add_weather_compact_cats(df, date_col='day_local', region_col='region_std')
AddWeatherCats ==
    /\ pc = "wx_merged"
    /\ wth_arg' = df
    /\ df' = add_weather_compact_cats(df)
    /\ pc' = "weather"
    /\ UNCHANGED <<ru_hol, cal_df, mag_file, wx_vars, news_vars, astro_vars>>

\* df = add_magnetic_storm_features(df, KP_INDEX_PATH, AP_INDEX_PATH), called on
\* the table as it stands at position at
AddMagnetic(at) ==
    /\ pc = at
    /\ IF mag_file.ok
       THEN \E p \in SortOrders(df) : df' = magnetic_features(df, mag_file.Kp_daily, p)
       ELSE df' = magnetic_unavailable(df)
    /\ pc' = "magnetic"
    /\ UNCHANGED <<ru_hol, cal_df, wth_arg, mag_file, wx_vars, news_vars, astro_vars>>

\* What a station can answer to a request for [start - 1, end]
Outcomes(start, end) ==
    {[kind |-> "raise", last |-> 0], [kind |-> "empty", last |-> 0]}
        \cup {[kind |-> "data", last |-> l] : l \in {end - 1, end}}

\* region_ranges: one row per region of the records, in the order of the
\* region categories, with the first and last local day of the region. The
\* records are of Moskva alone, over any span of the window, or of both regions
\* over the whole window
RegionRanges ==
    LET D == D_Mar07..(D_Mar07 + PfSpan - 1)
        Row(r, a, b) == [region |-> r, start |-> a, end |-> b]
        Spans == {x \in D \X D : x[1] <= x[2]}
    IN  {<<Row("Moskva", x[1], x[2])>> : x \in Spans}
            \cup {<<Row("Moskva", D_Mar07, D_Mar07 + PfSpan - 1),
                    Row("Primorskiy kray", D_Mar07, D_Mar07 + PfSpan - 1)>>}

\* enrich_data_full reaches the weather loop with the regions of its records
BeginWeatherLoop ==
    /\ pc = "calendar"
    /\ todo' \in RegionRanges
    /\ all_weather' = <<>>
    /\ call' = NoCall
    /\ pc' = "prefetch"
    /\ UNCHANGED <<df, ru_hol, cal_df, wth_arg, mag_file, cache_file, news_vars, astro_vars>>

\* One turn of the loop: wf = prefetch_region_weather_multi_station(region,
\* start, end), appended to all_weather when it is not empty
PrefetchNext ==
    /\ pc = "prefetch"
    /\ todo # <<>>
    /\ LET req == Head(todo)
       IN  \E outcomes \in [REGION_COORDS_MASTER(req.region) -> Outcomes(req.start, req.end)],
              write \in SaveOutcomes :
             LET r == prefetch(req.region, req.start, req.end,
                               cache_file[req.region], outcomes, write)
             IN  /\ call' = [region |-> req.region, start |-> req.start, end |-> req.end,
                             ret |-> r.ret, hit |-> r.hit, stations |-> r.stations,
                             write |-> r.write, before |-> cache_file[req.region]]
                 /\ cache_file' = [cache_file EXCEPT ![req.region] = r.cache]
                 /\ IF r.raised
                    THEN pc' = "aborted" /\ UNCHANGED <<todo, all_weather, astro_vars>>
                    ELSE /\ pc' = "prefetch"
                         /\ todo' = Tail(todo)
                         /\ all_weather' = IF r.ret # EmptyTable
                                           THEN Append(all_weather, r.ret)
                                           ELSE all_weather
    /\ UNCHANGED <<df, ru_hol, cal_df, wth_arg, mag_file, news_vars, astro_vars>>

\* The loop is over
EndWeatherLoop ==
    /\ pc = "prefetch"
    /\ todo = <<>>
    /\ pc' = "weather_loaded"
    /\ UNCHANGED <<df, ru_hol, cal_df, wth_arg, mag_file, wx_vars, news_vars, astro_vars>>

\* The program is run again later, CACHE_DIR as the last run left it
RunAgain ==
    /\ pc = "weather_loaded"
    /\ pc' = "calendar"
    /\ all_weather' = <<>>
    /\ call' = NoCall
    /\ UNCHANGED <<df, ru_hol, cal_df, wth_arg, mag_file, cache_file, todo, news_vars, astro_vars>>

InitCalendar ==
    /\ pc = "start"
    /\ \E a \in Anchors :
         /\ df \in [1..MaxRecs -> RawRows(a, a + MaxSpan - 1, {12}, {"Moskva"})]
         /\ ru_hol \in HolidaySets(a)
    /\ cal_df = <<>>
    /\ wth_arg = <<>>
    /\ mag_file = NoMagFile
    /\ NoWeatherLoop
    /\ NoNews
    /\ NoAstro

NextCalendar == Localize \/ AddCalendar

\* The calendar engine over Moscow records and every small holiday calendar
SpecCalendar == InitCalendar /\ [][NextCalendar]_vars

InitLocalDate ==
    /\ pc = "start"
    /\ df \in [1..MaxRecs -> RawRows(D_Mar07, D_Mar07 + MaxSpan - 1, Hours, InRegions)]
    /\ ru_hol \in HolidaySets(D_Mar07)
    /\ cal_df = <<>>
    /\ wth_arg = <<>>
    /\ mag_file = NoMagFile
    /\ NoWeatherLoop
    /\ NoNews
    /\ NoAstro

\* The same two steps over records of two time zones and two hours of the day
SpecLocalDate == InitLocalDate /\ [][NextCalendar]_vars

InitWeatherCats ==
    /\ pc = "start"
    /\ df \in [1..MaxRecs -> RawRows(D_Mar07, D_Mar07 + WxSpan - 1, Hours, InRegions)]
    /\ ru_hol = {D_Mar07 + 1}
    /\ cal_df = <<>>
    /\ wth_arg = <<>>
    /\ mag_file = NoMagFile
    /\ NoWeatherLoop
    /\ NoNews
    /\ NoAstro

NextWeatherCats == Localize \/ AddCalendar \/ MergeWeather \/ AddWeatherCats

\* The pipeline up to the weather categories, weather available for every record
SpecWeatherCats == InitWeatherCats /\ [][NextWeatherCats]_vars

\* Daily Kp values of the files, in 1/20: 2.0, 3.0, 9.0, or no value for a day
KpValues == {NaN, Kp(2), Kp(3), Kp(9)}

InitMagnetic ==
    /\ pc = "start"
    /\ df \in [1..MaxRecs -> RawRows(D_Mar07, D_Mar07 + WxSpan - 1, {12}, {"Moskva"})]
    /\ ru_hol = {D_Mar07 + 1}
    /\ cal_df = <<>>
    /\ wth_arg = <<>>
    /\ \/ mag_file = NoMagFile
       \/ \E kp \in [(D_Mar07 - 1)..(D_Mar07 + WxSpan - 1) -> KpValues] :
             mag_file = [ok |-> TRUE, Kp_daily |-> kp]
    /\ NoWeatherLoop
    /\ NoNews
    /\ NoAstro

NextMagnetic == Localize \/ AddMagnetic("localized")

\* The geomagnetic step on a localized record table
SpecMagnetic == InitMagnetic /\ [][NextMagnetic]_vars

InitPrefetch ==
    /\ pc = "calendar"
    /\ df = <<>>
    /\ ru_hol = {}
    /\ cal_df = <<>>
    /\ wth_arg = <<>>
    /\ mag_file = NoMagFile
    /\ cache_file \in {NoCache, [NoCache EXCEPT !["Moskva"] = Unreadable]}
    /\ todo = <<>>
    /\ all_weather = <<>>
    /\ call = NoCall
    /\ NoNews
    /\ NoAstro

NextPrefetch == BeginWeatherLoop \/ PrefetchNext \/ EndWeatherLoop \/ RunAgain

\* The weather loop of enrich_data_full, run after run over one cache directory
SpecPrefetch == InitPrefetch /\ [][NextPrefetch]_vars

-----------------------------------------------------------------------------
(* Calendar claims                                                         *)

NonWorking(x) == dayofweek(x) >= 5 \/ x \in ru_hol
WindowNonWorking(s) == \A y \in s..(s + 2) : NonWorking(y)
InLongWeekend(D) == \E s \in (D - 2)..D : WindowNonWorking(s)

\* C1: for every date D of the calendar range, long_weekend is "da" iff one of
\* the three 3-day windows containing D ([D-2,D], [D-1,D+1], [D,D+2]) consists
\* only of non-working days (Saturday, Sunday or holiday).  Stated for the
\* dates whose three windows lie inside the calendar range.
C1_LongWeekendIffWindow ==
    pc = "calendar" =>
        \A D \in DOMAIN cal_df :
            (D - 2 \in DOMAIN cal_df /\ D + 2 \in DOMAIN cal_df)
                => ((cal_df[D].long_weekend = "da") <=> InLongWeekend(D))

\* Holidays the calendar table can see, and the nearest one before / after D
TableHolidays == {h \in DOMAIN cal_df : h \in ru_hol}
HolidayDist(D) == SetMin({Abs(D - h) : h \in TableHolidays})
NearestIsAfter(D, k)  == D + k \in TableHolidays /\ HolidayDist(D) = k /\ D - k \notin TableHolidays
NearestIsBefore(D, k) == D - k \in TableHolidays /\ HolidayDist(D) = k /\ D + k \notin TableHolidays

\* C2: holiday_prox is the signed distance to the nearest holiday: a holiday
\* gives H0; a date k = 1 or 2 days before its nearest holiday and a date k days
\* after its nearest holiday get different labels among H-2, H-1, H+1, H+2;
\* every other distance gives net_ryadom.
C2_SignedHolidayDistance ==
    (pc = "calendar" /\ TableHolidays # {}) =>
        /\ \A D \in DOMAIN cal_df :
             /\ D \in ru_hol => cal_df[D].holiday_prox = "H0"
             /\ (D \notin ru_hol /\ HolidayDist(D) \in {1, 2})
                    => cal_df[D].holiday_prox \in {"H-2", "H-1", "H+1", "H+2"}
             /\ HolidayDist(D) > 2 => cal_df[D].holiday_prox = "net_ryadom"
        /\ \A D1, D2 \in DOMAIN cal_df : \A k \in {1, 2} :
             (NearestIsAfter(D1, k) /\ NearestIsBefore(D2, k))
                 => cal_df[D1].holiday_prox # cal_df[D2].holiday_prox

\* Distance in days from d to the nearest 10th or 25th of any month: those of
\* d's own month, the 25th of the month before and the 10th of the month after.
PrevMonthLen(d) == MonthLen[((month(d) + 10) % 12) + 1]
FirstOfMonth(d) == d - (day(d) - 1)
PaydayDistance(d) ==
    LET f == FirstOfMonth(d)
    IN  SetMin({Abs(d - (f + 9)), Abs(d - (f + 24)),
                Abs(d - (f - 1 - (PrevMonthLen(d) - 25))),
                Abs(d - (f + days_in_month(d) + 9))})

PaydayBucket(dist) ==
    CASE dist = 0                -> "den vyplaty"
      [] dist \in 1..2            -> "ryadom"
      [] dist \in 3..7            -> "nedelya"
      [] OTHER                   -> "daleko"

\* C3: cal_payday_proximity is the bucket of the minimal calendar distance to
\* the nearest 10th or 25th of any month, wrapping over month boundaries in both
\* directions (0 -> payday, 1..2 -> near, 3..7 -> week, more -> far).
C3_PaydayWrapsBothWays ==
    pc = "calendar" =>
        \A i \in 1..Len(df) :
            df[i].cal_payday_proximity = PaydayBucket(PaydayDistance(df[i].msk_day))

\* C4: the calendar features of a record are a function of its day_local: two
\* records with the same day_local have the same calendar features, and a
\* record gets the features of day_local, not of msk_day.
C4_CalendarByLocalDate ==
    pc = "calendar" =>
        /\ \A i, j \in 1..Len(df) :
             df[i].day_local = df[j].day_local => CalCols(df[i]) = CalCols(df[j])
        /\ \A i \in 1..Len(df) :
             df[i].day_local \in DOMAIN cal_df
                 => CalCols(df[i]) = CalFeaturesAt(df[i].day_local, cal_df)

Third(dd) ==
    CASE dd \in 1..10  -> "nachalo"
      [] dd \in 11..20 -> "seredina"
      [] dd \in 21..31 -> "konec"

\* C5 as stated: a record dated 2024-03-20 gets cal_season "Vesna" and
\* cal_month_phase3 "konec".
C5_Mar20IsEnd ==
    pc = "calendar" =>
        \A i \in 1..Len(df) :
            df[i].msk_day = D_Mar20
                => (df[i].cal_season = "Vesna" /\ df[i].cal_month_phase3 = "konec")

\* C5 amended: cal_month_phase3 is "nachalo" for the days 1..10 of the month,
\* "seredina" for 11..20 and "konec" from the 21st on, so a record dated
\* 2024-03-20 gets cal_season "Vesna" and cal_month_phase3 "seredina".
C5_MonthThirds ==
    pc = "calendar" =>
        \A i \in 1..Len(df) :
            /\ df[i].cal_month_phase3 = Third(day(df[i].msk_day))
            /\ df[i].msk_day = D_Mar20
                 => (df[i].cal_season = "Vesna" /\ df[i].cal_month_phase3 = "seredina")

C5_Witness ==
    /\ pc = "calendar"
    /\ \E i, j \in 1..Len(df) :
         /\ df[i].msk_day = D_Mar20 /\ df[i].cal_month_phase3 = "seredina"
         /\ df[j].msk_day = D_Mar20 + 1 /\ df[j].cal_month_phase3 = "konec"

-----------------------------------------------------------------------------
(* Weather claims                                                          *)

\* The table t with the weather of one (region, day) replaced
SetWeather(t, key, kind) ==
    [i \in 1..Len(t) |->
        IF <<t[i].region_std, t[i].day_local>> = key
        THEN WithCols(t[i], Weather(kind)) ELSE t[i]]

\* The rolling categories the rows of one (region, day) carry
Last5Of(t, key) ==
    {<<t[i].wth_bad_weather_last5_cat, t[i].wth_extreme_temp_last5_cat>> :
        i \in {j \in 1..Len(t) : <<t[j].region_std, t[j].day_local>> = key}}

\* C6: the rolling 5-day categories of a (region, day N) do not depend on day
\* N's own flag: with the weather (hence the flag) of day N alone replaced by
\* any other, the rows of (region, N) get the same rolling categories.
C6_RollingExcludesOwnDay ==
    pc = "weather" =>
        \A key \in KeysOf(wth_arg) : \A kind \in WeatherKinds :
            Last5Of(add_weather_compact_cats(SetWeather(wth_arg, key, kind)), key)
                = Last5Of(df, key)

\* The value of col on the calendar day before row i's day in row i's region,
\* NaN when the table has no record of that day
PrevDayValue(t, i, col) ==
    LET P == {j \in 1..Len(t) : /\ t[j].region_std = t[i].region_std
                                /\ t[j].day_local = t[i].day_local - 1}
    IN  IF P = {} THEN NaN ELSE t[CHOOSE j \in P : TRUE][col]

DayDiff(t, i, col) ==
    IF PrevDayValue(t, i, col) = NaN THEN NaN ELSE t[i][col] - PrevDayValue(t, i, col)

ChangeCats(row) ==
    <<row.wth_temp_change_cat, row.wth_precipitation_change_cat,
      row.wth_pressure_change_cat, row.wth_wind_speed_change_cat>>

\* C7: the day-over-day change categories compare a record's (region, day)
\* value with the value of the preceding calendar day of the same region: all
\* records of one region and day get the same categories, and a day more than
\* one calendar day earlier is never the predecessor.
C7_ChangeAgainstPreviousDay ==
    pc = "weather" =>
        /\ \A i, j \in 1..Len(df) :
             (df[i].region_std = df[j].region_std /\ df[i].day_local = df[j].day_local)
                 => ChangeCats(df[i]) = ChangeCats(df[j])
        /\ \A i \in 1..Len(df) :
             /\ df[i].wth_temp_change_cat = cut_temp_change(DayDiff(df, i, "tavg"))
             /\ df[i].wth_pressure_change_cat = cut_pressure_change(DayDiff(df, i, "pres"))
             /\ df[i].wth_wind_speed_change_cat = cut_wind_change(DayDiff(df, i, "wspd_kmh"))

-----------------------------------------------------------------------------
(* Geomagnetic claims                                                      *)

FileKp(d) == IF d \in DOMAIN mag_file.Kp_daily THEN mag_file.Kp_daily[d] ELSE NaN

\* C10: when the files load, mag_storm_change_cat of a record is determined by
\* its msk_day: two records with the same msk_day get the same category, and
\* when the files have the Kp of msk_day and of the day before, the category is
\* the bucket of their difference.
C10_ChangeByMoscowDay ==
    (pc = "magnetic" /\ mag_file.ok) =>
        /\ \A i, j \in 1..Len(df) :
             df[i].msk_day = df[j].msk_day
                 => df[i].mag_storm_change_cat = df[j].mag_storm_change_cat
        /\ \A i \in 1..Len(df) :
             (FileKp(df[i].msk_day) # NaN /\ FileKp(df[i].msk_day - 1) # NaN)
                 => df[i].mag_storm_change_cat
                      = classify_change(FileKp(df[i].msk_day) - FileKp(df[i].msk_day - 1))

-----------------------------------------------------------------------------
(* Weather cache claims                                                    *)

\* A call has been made and its record is current
Called == call.region # ""

\* The artifact's min day <= requested start and its max day >= requested end
Covered(art, start, end) ==
    /\ art.kind = "table"
    /\ \E d \in DOMAIN art.rows : d <= start
    /\ \E d \in DOMAIN art.rows : d >= end

\* The stations of the call that returned data
WithData == {k \in DOMAIN call.stations : call.stations[k].kind = "data"}

\* Every station of the region was asked
AllFetched == DOMAIN call.stations = REGION_COORDS_MASTER(call.region)

\* C8 as stated: the artifact is returned without fetching only if it covers
\* the requested span; in every other case all stations are fetched and, when
\* a station returned data, the artifact is overwritten with the fresh table.
C8_CacheContract ==
    Called =>
        /\ call.hit => /\ Covered(call.before, call.start, call.end)
                       /\ call.ret = call.before.rows
                       /\ call.stations = <<>>
        /\ ~Covered(call.before, call.start, call.end) =>
              /\ ~call.hit
              /\ AllFetched
              /\ WithData # {} => /\ call.ret # EmptyTable
                                  /\ cache_file[call.region] = Table(call.ret)

\* C8 amended: as C8, but the artifact is overwritten with the fresh table only
\* when saving it succeeds; when saving fails the call still returns the fresh
\* table and the artifact stays as it was or is left unreadable.
C8_CacheContractUnlessSaveFails ==
    Called =>
        /\ call.hit => /\ Covered(call.before, call.start, call.end)
                       /\ call.ret = call.before.rows
                       /\ call.stations = <<>>
                       /\ cache_file[call.region] = call.before
        /\ ~Covered(call.before, call.start, call.end) =>
              /\ ~call.hit
              /\ AllFetched
              /\ WithData # {} =>
                    /\ call.ret # EmptyTable
                    /\ call.write = "ok" => cache_file[call.region] = Table(call.ret)
                    /\ call.write = "failed" => cache_file[call.region] = call.before
                    /\ call.write = "torn" => cache_file[call.region] = Unreadable

\* A call that found a table not covering the span, refetched and overwrote it
C8_Witness ==
    /\ Called
    /\ call.before.kind = "table"
    /\ ~Covered(call.before, call.start, call.end)
    /\ ~call.hit
    /\ call.write = "ok"
    /\ cache_file[call.region] = Table(call.ret)
    /\ cache_file[call.region] # call.before

\* The days station k returned
DaysOf(k) == (call.start - 1)..call.stations[k].last

\* C9: a station whose fetch raises or returns no data is skipped and the others
\* are averaged day by day; when every station fails the call returns the empty
\* table without raising, the artifact is left as it was, and the loop of
\* enrich_data_full goes on to the remaining regions.
C9_StationFailuresTolerated ==
    (Called /\ ~call.hit) =>
        /\ pc # "aborted"
        /\ DOMAIN call.ret = UNION {DaysOf(k) : k \in WithData}
        /\ \A d \in DOMAIN call.ret :
             LET K == {k \in WithData : d \in DaysOf(k)}
             IN  call.ret[d] = <<SumTavg(K), Cardinality(K)>>
        /\ WithData = {} =>
              /\ call.ret = EmptyTable
              /\ cache_file[call.region] = call.before
              /\ pc \in {"prefetch", "weather_loaded"}
              /\ (pc = "prefetch" /\ call.region = "Moskva") =>
                    \/ todo = <<>>
                    \/ todo = <<[region |-> "Primorskiy kray",
                                 start |-> call.start, end |-> call.end]>>

\* Every station of the first region failed: nothing was saved for it, and the
\* loop went on to fetch the second region, whose table is the only one kept
C9_Witness ==
    /\ Called /\ ~call.hit
    /\ call.region = "Primorskiy kray"
    /\ call.ret # EmptyTable
    /\ cache_file["Moskva"] = NoFile
    /\ all_weather = <<call.ret>>

-----------------------------------------------------------------------------
(* Geomagnetic level claim                                                 *)

\* The Kp values the records of the table have in the files, NaN left out
RecordKps == SortedVals([i \in 1..Len(df) |-> FileKp(df[i].msk_day)],
                        {i \in 1..Len(df) : FileKp(df[i].msk_day) # NaN})

\* The median Kp of the dataset, NaN when no record has a value
DatasetMedianKp ==
    LET n == Len(RecordKps)
    IN  IF n = 0 THEN NaN
        ELSE IF n % 2 = 1 THEN RecordKps[(n + 1) \div 2]
        ELSE (RecordKps[n \div 2] + RecordKps[(n \div 2) + 1]) \div 2

ImputedKp(d) == IF FileKp(d) # NaN THEN FileKp(d) ELSE DatasetMedianKp

\* C11: when the files load, mag_storm_level_cat is the bucket (4/5/6/8) of the
\* record's daily Kp, a missing Kp first replaced by the dataset's median; a
\* record is 'ekstremalnaya burya' only when that Kp is a number above 8, also
\* when no day of the dataset has a Kp value.
C11_LevelIsBucketOfImputedKp ==
    (pc = "magnetic" /\ mag_file.ok) =>
        \A i \in 1..Len(df) :
            LET kp == ImputedKp(df[i].msk_day)
            IN  /\ kp # NaN =>
                     df[i].mag_storm_level_cat =
                        IF kp <= Kp(4) THEN "spokoyno"
                        ELSE IF kp <= Kp(5) THEN "slabaya burya"
                        ELSE IF kp <= Kp(6) THEN "umerennaya burya"
                        ELSE IF kp <= Kp(8) THEN "silnaya burya"
                        ELSE "ekstremalnaya burya"
                /\ df[i].mag_storm_level_cat = "ekstremalnaya burya"
                     => (kp # NaN /\ kp > Kp(8))

-----------------------------------------------------------------------------
(* Text: a string is a sequence of characters. A Cyrillic letter is written *)
(* by its Latin transliteration ("ch" is one letter), a capital in capitals, *)
(* a Latin letter with the prefix lat_ / LAT_                                *)

CyrLower == {"a", "b", "v", "g", "d", "e", "zh", "z", "i", "j", "k", "l", "m", "n", "o", "p", "r", "s", "t", "u", "f", "h", "c", "ch", "sh", "sch", "hard", "y", "soft", "eh", "yu", "ya"}
LatLower == {"lat_a", "lat_b", "lat_c", "lat_d", "lat_e", "lat_f", "lat_g", "lat_h", "lat_i", "lat_j", "lat_k", "lat_l", "lat_m", "lat_n", "lat_o", "lat_p", "lat_q", "lat_r", "lat_s", "lat_t", "lat_u", "lat_v", "lat_w", "lat_x", "lat_y", "lat_z"}
Digits == {"0", "1", "2", "3", "4", "5", "6", "7", "8", "9"}

\* The capitals the texts of the model contain
Capitals ==
    "O" :> "o" @@ "B" :> "b" @@ "CH" :> "ch" @@ "P" :> "p" @@ "K" :> "k" @@ "M" :> "m" @@ "N" :> "n" @@ "SH" :> "sh" @@
    "LAT_I" :> "lat_i" @@ "LAT_T" :> "lat_t"

\* str.lower()
lower(s) == [i \in 1..Len(s) |-> IF s[i] \in DOMAIN Capitals THEN Capitals[s[i]] ELSE s[i]]

\* \w of the regular expressions, on lower-cased text
IsWordChar(c) == c \in CyrLower \cup LatLower \cup Digits \cup {"_"}

\* [а-яa-z0-9]
IsKeyChar(c) == c \in CyrLower \cup LatLower \cup Digits

\* pat in s
IsSubstring(pat, s) ==
    \E i \in 1..(Len(s) - Len(pat) + 1) : SubSeq(s, i, i + Len(pat) - 1) = pat

\* s.replace(old, new): every occurrence, left to right
RECURSIVE replace(_, _, _)
replace(s, old, new) ==
    IF Len(s) < Len(old) THEN s
    ELSE IF SubSeq(s, 1, Len(old)) = old
         THEN new \o replace(SubSeq(s, Len(old) + 1, Len(s)), old, new)
         ELSE <<s[1]>> \o replace(Tail(s), old, new)

\* re.sub(r'\s+', ' ', s).strip()
RECURSIVE squeeze(_)
squeeze(s) ==
    IF s = <<>> THEN <<>>
    ELSE IF s[1] = " " /\ (Len(s) = 1 \/ s[2] = " ") THEN squeeze(Tail(s))
    ELSE <<s[1]>> \o squeeze(Tail(s))

strip_left(s) == IF s # <<>> /\ s[1] = " " THEN Tail(s) ELSE s

collapse_ws(s) == strip_left(squeeze(s))

Mezhdunar_dot == <<"m", "e", "zh", "d", "u", "n", "a", "r", ".">>
Mezhdunarodn == <<"m", "e", "zh", "d", "u", "n", "a", "r", "o", "d", "n">>

\* The two replacements of _normalize_cat_text and _map_news_group
replace_abbr(s) ==
    replace(replace(s, Mezhdunar_dot, Mezhdunarodn), <<"ch", "p">>, <<"ch", "s">>)

_normalize_cat_text(s) == collapse_ws(replace_abbr(lower(s)))

-----------------------------------------------------------------------------
(* News catalog: _map_news_group, _load_events_from_tsv,                   *)
(* _compress_security_updates                                              *)

Security == "Bezopasnost/ChS"
DefaultGroup == "Ekonomika/nalogi/byudzhet"

\* The groups and their keywords, in the order of the dictionary
NEWS_GROUP_PATTERNS == <<
    [grp |-> "Bezopasnost/ChS", pats |-> {
        <<"v", "o", "e", "n", "n", "y", "e", " ", "d", "e", "j", "s", "t", "v">>,
        <<"b", "o", "e", "v", "y", "e">>,
        <<"b", "o", "i">>,
        <<"u", "d", "a", "r">>,
        <<"k", "o", "n", "t", "r", "n", "a", "s", "t", "u", "p">>,
        <<"v", "z", "ya", "t">>,
        <<"z", "a", "h", "v", "a", "t">>,
        <<"v", "y", "v", "o", "d", " ", "v", "o", "j", "s", "k">>,
        <<"d", "r", "g">>,
        <<"b", "e", "z", "o", "p", "a", "s", "n", "o", "s", "t">>,
        <<"t", "e", "r", "a", "k", "t">>,
        <<"ch", "s">>,
        <<"ch", "p">>,
        <<"v", "z", "r", "y", "v">>,
        <<"o", "b", "s", "t", "r", "e", "l">>,
        <<"r", "a", "k", "e", "t">>,
        <<"a", "r", "t", "i", "l", "l">>,
        <<"sh", "t", "u", "r", "m">>,
        <<"p", "r", "o", "r", "y", "v">>,
        <<"o", "s", "v", "o", "b", "o", "zh", "d">>,
        <<"p", "a", "v", "o", "d", "k">>,
        <<"p", "r", "o", "i", "s", "sh", "e", "s", "t", "v">>,
        <<"d", "r", "o", "n">>,
        <<"b", "p", "l", "a">>,
        <<"d", "i", "v", "e", "r", "s">>}],
    [grp |-> "Sankcii/finansy", pats |-> {
        <<"s", "a", "n", "k", "c", "i">>,
        <<"eh", "m", "b", "a", "r", "g", "o">>,
        <<"lat_s", "lat_w", "lat_i", "lat_f", "lat_t">>,
        <<"s", "v", "i", "f", "t">>,
        <<"n", "k", "c">>,
        <<"k", "l", "i", "r", "i", "n", "g">>,
        <<"r", "e", "j", "t", "i", "n", "g">>,
        <<"r", "e", "j", "t", "i", "n", "g", "a">>,
        <<"m", "u", "s">>,
        <<"v", "a", "l", "yu", "t">>,
        <<"k", "u", "r", "s">>,
        <<"m", "o", "s", "b", "i", "r", "zh">>,
        <<"m", "o", "s", "o", "b", "i", "r", "zh">>,
        <<"s", "p", "b", "-", "b", "i", "r", "zh", "a">>,
        <<"b", "i", "r", "zh">>,
        <<"b", "a", "n", "k">>}],
    [grp |-> "Denezhnaya politika", pats |-> {
        <<"k", "l", "yu", "ch", "e", "v", "a", "ya", " ", "s", "t", "a", "v", "k", "a">>,
        <<"d", "e", "n", "e", "zh", "n", "a", "ya", " ", "p", "o", "l", "i", "t", "i", "k", "a">>}],
    [grp |-> "IT/platezhi/sboi", pats |-> {
        <<"p", "l", "a", "t", "e", "zh">>,
        <<"f", "i", "n", "t", "e", "h">>,
        <<"s", "b", "p">>,
        <<"lat_m", "lat_i", "lat_r", " ", "lat_p", "lat_a", "lat_y">>,
        <<"k", "o", "sh", "e", "l", "e", "k">>,
        <<"k", "o", "sh", "e", "l", "soft", "k">>,
        <<"lat_p", "lat_u", "lat_s", "lat_h">>,
        <<"p", "u", "sh">>,
        <<"lat_d", "lat_d", "lat_o", "lat_s">>,
        <<"s", "b", "o", "j">>,
        <<"o", "n", "l", "a", "j", "n">>,
        <<"lat_i", "lat_t">>,
        <<"i", "n", "t", "e", "r", "n", "e", "t">>,
        <<"s", "o", "c", "s", "e", "t", "soft">>,
        <<"s", "t", "r", "i", "m">>,
        <<"lat_d", "lat_p", "lat_i">>,
        <<"lat_d", "lat_n", "lat_s", "lat_s", "lat_e", "lat_c">>}],
    [grp |-> "Energetika/rynki", pats |-> {
        <<"eh", "n", "e", "r", "g", "e", "t", "i", "k">>,
        <<"n", "e", "f", "t", "soft">>,
        <<"g", "a", "z">>,
        <<"s", "p", "-", "1">>,
        <<"s", "e", "v", "e", "r", "n">>,
        <<"g", "a", "z", "p", "r", "o", "m">>,
        <<"o", "p", "e", "k">>,
        <<"a", "l", "m", "a", "z">>,
        <<"t", "o", "p", "l", "i", "v">>,
        <<"eh", "k", "s", "p", "o", "r", "t", " ", "t", "o", "p", "l", "i", "v">>}],
    [grp |-> "Ekonomika/nalogi/byudzhet", pats |-> {
        <<"eh", "k", "o", "n", "o", "m", "i", "k">>,
        <<"b", "yu", "d", "zh", "e", "t">>,
        <<"n", "a", "l", "o", "g">>,
        <<"m", "a", "k", "r", "o">>,
        <<"f", "o", "r", "u", "m">>,
        <<"p", "m", "eh", "f">>,
        <<"v", "eh", "f">>,
        <<"i", "p", "o", "t", "e", "k">>,
        <<"t", "o", "r", "g", "o", "v", "l", "ya">>,
        <<"i", "m", "p", "o", "r", "t">>,
        <<"eh", "k", "s", "p", "o", "r", "t">>,
        <<"l", "o", "g", "i", "s", "t", "i", "k">>,
        <<"k", "o", "m", "p", "a", "n", "i">>,
        <<"p", "r", "o", "m", "y", "sh", "l", "e", "n", "n", "o", "s", "t">>,
        <<"m", "e", "t", "a", "l", "l">>,
        <<"a", "p", "k">>,
        <<"s", "e", "l", "soft", "h", "o", "z">>,
        <<"o", "p", "k">>}],
    [grp |-> "Politika/pravo/vybory", pats |-> {
        <<"p", "o", "l", "i", "t", "i", "k", "a">>,
        <<"p", "r", "a", "v", "o">>,
        <<"z", "a", "k", "o", "n">>,
        <<"v", "y", "b", "o", "r">>,
        <<"m", "e", "zh", "d", "u", "n", "a", "r">>,
        <<"n", "a", "t", "o">>,
        <<"b", "r", "i", "k", "s">>,
        <<"s", "a", "m", "m", "i", "t">>,
        <<"sh", "o", "s">>,
        <<"s", "o", "v", "e", "t", " ", "e", "v", "r", "o", "p", "y">>,
        <<"k", "a", "d", "r", "y">>,
        <<"t", "e", "r", "r", "i", "t", "o", "r">>,
        <<"o", "b", "o", "r", "o", "n", "a">>,
        <<"p", "r", "i", "z", "y", "v">>,
        <<"m", "o", "b", "i", "l", "i", "z">>,
        <<"i", "n", "a", "u", "g", "u", "r", "a", "c">>}],
    [grp |-> "Prazdniki/obschestvo", pats |-> {
        <<"p", "r", "a", "z", "d", "n", "i", "k">>,
        <<"o", "b", "sch", "e", "s", "t", "v", "o">>,
        <<"s", "o", "c", "i", "a", "l", "soft", "n">>,
        <<"m", "r", "o", "t">>,
        <<"zh", "k", "h">>,
        <<"k", "u", "l", "soft", "t", "u", "r">>,
        <<"p", "a", "r", "a", "d">>,
        <<"t", "r", "a", "u", "r">>}]>>

Groups == {NEWS_GROUP_PATTERNS[k].grp : k \in 1..Len(NEWS_GROUP_PATTERNS)}

\* The positions of the groups one of whose keywords is in s
Matching(s) ==
    {k \in 1..Len(NEWS_GROUP_PATTERNS) :
        \E pat \in NEWS_GROUP_PATTERNS[k].pats : IsSubstring(pat, s)}

\* A scan that lets the last matching group win
_map_news_group_last_match(cat_raw, event_text) ==
    LET s == replace_abbr(lower(cat_raw \o <<" ">> \o event_text))
    IN  IF Matching(s) = {} THEN DefaultGroup
        ELSE NEWS_GROUP_PATTERNS[SetMax(Matching(s))].grp

_map_news_group(cat_raw, event_text) ==
    LET s == replace_abbr(lower(cat_raw \o <<" ">> \o event_text))
    IN  IF Matching(s) = {} THEN DefaultGroup
        ELSE NEWS_GROUP_PATTERNS[SetMin(Matching(s))].grp

\* The words of norm_event's second expression that match alone (взятие? is two)
StopExact == {
    <<"z", "a", "h", "v", "a", "t">>,
    <<"v", "z", "ya", "t", "i">>,
    <<"v", "z", "ya", "t", "i", "e">>,
    <<"b", "o", "i">>,
    <<"p", "r", "o", "d", "o", "l", "zh", "e", "n", "i", "e">>,
    <<"p", "o", "p", "y", "t", "k", "a">>,
    <<"p", "r", "o", "v", "a", "l">>,
    <<"n", "o", "v", "a", "ya">>,
    <<"p", "o", "s", "l", "e">>}

\* ... and the ones followed by \w*
StopPrefixes == {
    <<"o", "s", "v", "o", "b", "o", "zh", "d", "e", "n">>,
    <<"o", "s", "v", "o", "b", "o", "zh", "d">>,
    <<"o", "b", "s", "t", "r", "e", "l">>,
    <<"sh", "t", "u", "r", "m">>,
    <<"p", "r", "o", "r", "y", "v">>,
    <<"k", "o", "n", "t", "r">>,
    <<"i", "n", "t", "e", "n", "s", "i", "v">>,
    <<"s", "t", "a", "b">>}

IsStopWord(word) ==
    \/ word \in StopExact
    \/ \E p \in StopPrefixes : Len(word) >= Len(p) /\ SubSeq(word, 1, Len(p)) = p

\* re.sub(r'\(.*?\)', ' ', s): a bracket up to the first closing one
RECURSIVE sub_brackets(_)
sub_brackets(s) ==
    IF s = <<>> THEN <<>>
    ELSE IF s[1] = "(" /\ \E j \in 2..Len(s) : s[j] = ")"
         THEN LET j == SetMin({k \in 2..Len(s) : s[k] = ")"})
              IN  <<" ">> \o sub_brackets(SubSeq(s, j + 1, Len(s)))
         ELSE <<s[1]>> \o sub_brackets(Tail(s))

\* Length of the run of word characters s starts with
RECURSIVE word_run(_)
word_run(s) == IF s = <<>> \/ ~IsWordChar(s[1]) THEN 0 ELSE 1 + word_run(Tail(s))

\* re.sub(r'\b(...)\b', ' ', s): a whole word that matches becomes a space
RECURSIVE sub_stop_words(_)
sub_stop_words(s) ==
    IF s = <<>> THEN <<>>
    ELSE IF ~IsWordChar(s[1]) THEN <<s[1]>> \o sub_stop_words(Tail(s))
    ELSE LET n == word_run(s)
             word == SubSeq(s, 1, n)
         IN  (IF IsStopWord(word) THEN <<" ">> ELSE word)
                 \o sub_stop_words(SubSeq(s, n + 1, Len(s)))

\* re.sub(r'[^а-яa-z0-9]+', ' ', s)
sub_non_key(s) == [i \in 1..Len(s) |-> IF IsKeyChar(s[i]) THEN s[i] ELSE " "]

\* norm_event of _compress_security_updates
norm_event(txt) ==
    collapse_ws(sub_non_key(sub_stop_words(sub_brackets(lower(txt)))))

\* A date that could not be parsed
\* _load_events_from_tsv: rows without a date are dropped, then cat_norm and
\* group are derived
RECURSIVE _load_events_from_tsv(_)
_load_events_from_tsv(rows) ==
    IF rows = <<>> THEN <<>>
    ELSE LET r == rows[1]
             cat_norm == _normalize_cat_text(r.cat_raw)
         IN  (IF r.event_date = NaT THEN <<>>
              ELSE <<[event_date |-> r.event_date, event |-> r.event,
                      cat_raw |-> r.cat_raw, cat_norm |-> cat_norm,
                      group |-> _map_news_group(cat_norm, r.event)]>>)
                 \o _load_events_from_tsv(Tail(rows))

\* Rows of t selected by keep, in order
RECURSIVE select_rows(_, _)
select_rows(t, keep) ==
    IF t = <<>> THEN <<>>
    ELSE (IF keep[1] THEN <<t[1]>> ELSE <<>>)
             \o select_rows(Tail(t), Tail(keep))

\* A compression that forgets the date in the key
_compress_by_text_only(e) ==
    LET sec(i) == e[i].group = Security
        first(i) == ~\E j \in 1..(i - 1) :
                        /\ sec(j)
                        /\ norm_event(e[j].event) = norm_event(e[i].event)
    IN  select_rows(e, [i \in 1..Len(e) |-> ~sec(i)])
            \o select_rows(e, [i \in 1..Len(e) |-> sec(i) /\ first(i)])

\* _compress_security_updates: the other events, then the security events
\* without the later ones of the same (event_date, event_norm)
_compress_security_updates(e) ==
    LET sec(i) == e[i].group = Security
        first(i) == ~\E j \in 1..(i - 1) :
                        /\ sec(j)
                        /\ e[j].event_date = e[i].event_date
                        /\ norm_event(e[j].event) = norm_event(e[i].event)
    IN  select_rows(e, [i \in 1..Len(e) |-> ~sec(i)])
            \o select_rows(e, [i \in 1..Len(e) |-> sec(i) /\ first(i)])

\* Category labels and event texts of the catalogs
Cat_Unknown == <<"N", "e", "i", "z", "v", "e", "s", "t", "n", "o">>
Cat_ChP == <<"CH", "P">>
Cat_Mezhdunar == <<"M", "e", "zh", "d", "u", "n", "a", "r", ".">>
Ev_ObstrelVBelgorode == <<"O", "b", "s", "t", "r", "e", "l", " ", "v", " ", "B", "e", "l", "g", "o", "r", "o", "d", "e">>
Ev_ObstrelBelgorodaPovtor == <<"o", "b", "s", "t", "r", "e", "l", " ", "B", "e", "l", "g", "o", "r", "o", "d", "a", " ", "(", "p", "o", "v", "t", "o", "r", ")">>
Ev_ObstrelBelgoroda == <<"O", "b", "s", "t", "r", "e", "l", " ", "B", "e", "l", "g", "o", "r", "o", "d", "a">>
Ev_Pogoda == <<"p", "o", "g", "o", "d", "a">>
Ev_KlyuchevayaStavkaBank == <<"K", "l", "yu", "ch", "e", "v", "a", "ya", " ", "s", "t", "a", "v", "k", "a", ":", " ", "b", "a", "n", "k">>
Ev_ITSboj == <<"LAT_I", "LAT_T", " ", "s", "b", "o", "j">>
Ev_Zakon == <<"z", "a", "k", "o", "n">>
Ev_Parad == <<"p", "a", "r", "a", "d">>
Ev_Bank == <<"B", "a", "n", "k">>
Ev_bank == <<"b", "a", "n", "k">>

\* (category, text) of the events a catalog is drawn from
SecuritySamples ==
    {<<Cat_Unknown, t>> : t \in {Ev_ObstrelVBelgorode, Ev_ObstrelBelgorodaPovtor,
                                 Ev_ObstrelBelgoroda}}
        \cup {<<Cat_ChP, Ev_Pogoda>>}

SampleEvents ==
    SecuritySamples
        \cup {<<Cat_Unknown, t>> : t \in {Ev_KlyuchevayaStavkaBank, Ev_ITSboj, Ev_Pogoda,
                                           Ev_Parad, Ev_Bank, Ev_bank}}
        \cup {<<Cat_Mezhdunar, Ev_Zakon>>}

-----------------------------------------------------------------------------
(* News steps of build_news_compact_features                               *)

MaxEvents == 2    \* rows of the events file

\* One row of the events file
EventRow(d, x) == [event_date |-> d, event |-> x[2], cat_raw |-> x[1]]

\* The rows the files of the catalog runs are made of: the samples on one day,
\* the security samples on the next day too, and one row whose date cannot be
\* parsed
CatalogRows ==
    {EventRow(D_Mar07, x) : x \in SampleEvents}
        \cup {EventRow(D_Mar07 + 1, x) : x \in SecuritySamples}
        \cup {EventRow(NaT, <<Cat_Unknown, Ev_Pogoda>>)}

\* ev_raw = _load_events_from_tsv(events_path)
LoadEvents ==
    /\ pc = "news_start"
    /\ ev_raw' = _load_events_from_tsv(events_file)
    /\ pc' = "ev_loaded"
    /\ UNCHANGED <<df, ru_hol, cal_df, wth_arg, mag_file, wx_vars, events_file, ev, audit, news_daily, astro_vars>>

\* An auditing pass that removes the repeated rows it counts from the catalog
\* it is given
_audit_in_place(e, outcome) ==
    IF outcome = "completed"
    THEN select_rows(e, [i \in 1..Len(e) |-> ~\E j \in 1..(i - 1) : e[j] = e[i]])
    ELSE e

\* ev_raw after _audit_events_for_debug(ev_raw.copy()): the pass works on a copy
\* and only prints
_audit_events_for_debug(e, outcome) == e

\* except Exception: pass -- what was raised inside the pass does not leave it
_audit_propagates(outcome) == FALSE

\* How the body of the pass can end: an empty catalog has no column 'group'
\* and raises inside the try; otherwise it completes or some row raises
AuditOutcomes(e) == IF e = <<>> THEN {"raised inside"} ELSE {"completed", "raised inside"}

\* if audit_print: _audit_events_for_debug(ev_raw.copy()). The body of the pass
\* is one try/except Exception, so an exception inside it is swallowed
AuditEvents ==
    /\ pc = "ev_loaded"
    /\ \E outcome \in IF audit.print THEN AuditOutcomes(ev_raw) ELSE {"skipped"} :
          /\ audit' = [audit EXCEPT !.outcome = outcome]
          /\ ev_raw' = IF audit.print THEN _audit_events_for_debug(ev_raw, outcome)
                       ELSE ev_raw
          /\ pc' = IF audit.print /\ _audit_propagates(outcome) THEN "raised"
                   ELSE "audited"
    /\ UNCHANGED <<df, ru_hol, cal_df, wth_arg, mag_file, wx_vars, events_file, ev, news_daily, astro_vars>>

\* ev = _compress_security_updates(ev_raw); an empty catalog is returned as is
CompressEvents ==
    /\ pc = "audited"
    /\ ev' = IF ev_raw = <<>> THEN ev_raw ELSE _compress_security_updates(ev_raw)
    /\ pc' = "compressed"
    /\ UNCHANGED <<df, ru_hol, cal_df, wth_arg, mag_file, wx_vars, events_file, ev_raw, audit, news_daily, astro_vars>>

InitNewsCatalog ==
    /\ pc = "news_start"
    /\ df = <<>>
    /\ ru_hol = {}
    /\ cal_df = <<>>
    /\ wth_arg = <<>>
    /\ mag_file = NoMagFile
    /\ NoWeatherLoop
    /\ events_file \in UNION {[1..n -> CatalogRows] : n \in 0..MaxEvents}
    /\ ev_raw = <<>>
    /\ ev = <<>>
    /\ audit = [print |-> FALSE, outcome |-> "none"]
    /\ news_daily = <<>>
    /\ NoAstro

NextNewsCatalog == LoadEvents \/ AuditEvents \/ CompressEvents

\* Loading and compressing the event catalog
SpecNewsCatalog == InitNewsCatalog /\ [][NextNewsCatalog]_vars

-----------------------------------------------------------------------------
(* News catalog claims                                                     *)

\* Group k has a keyword in s
Hit(k, s) == \E pat \in NEWS_GROUP_PATTERNS[k].pats : IsSubstring(pat, s)

\* C12: every event gets exactly one of the 8 groups: the first group, in the
\* order of NEWS_GROUP_PATTERNS, one of whose keywords is a case-insensitive
\* substring of the category label plus the event text, and
\* 'Ekonomika/nalogi/byudzhet' when no keyword matches.
C12_FirstMatchingGroup ==
    pc = "ev_loaded" =>
        \A i \in 1..Len(ev_raw) :
            LET s == lower(ev_raw[i].cat_raw \o <<" ">> \o ev_raw[i].event)
            IN  /\ ev_raw[i].group \in Groups
                /\ \A k \in 1..Len(NEWS_GROUP_PATTERNS) :
                      (Hit(k, s) /\ \A j \in 1..(k - 1) : ~Hit(j, s))
                          => ev_raw[i].group = NEWS_GROUP_PATTERNS[k].grp
                /\ (\A k \in 1..Len(NEWS_GROUP_PATTERNS) : ~Hit(k, s))
                      => ev_raw[i].group = DefaultGroup

\* A catalog with an event that matches keywords of two groups and got the
\* earlier one, and an event that matches none and got the default group
C12_Witness ==
    /\ pc = "ev_loaded"
    /\ \E i, j \in 1..Len(ev_raw) :
          /\ ev_raw[i].event = Ev_KlyuchevayaStavkaBank
          /\ ev_raw[i].group = "Sankcii/finansy"
          /\ ev_raw[j].event = Ev_Pogoda /\ ev_raw[j].cat_raw = Cat_Unknown
          /\ ev_raw[j].group = DefaultGroup

\* The (date, normalized text) key of a security event
SecKey(r) == <<r.event_date, norm_event(r.event)>>

\* How many rows of t equal r
Copies(t, r) == Cardinality({i \in 1..Len(t) : t[i] = r})

\* C13: compression keeps the non-security events as they are (same multiset)
\* and, among the security events, removes an event only when an earlier one
\* has the same date and the same normalized text: exactly one event survives
\* per distinct (date, normalized text), the first one.
C13_OnlySecurityDuplicatesRemoved ==
    pc = "compressed" =>
        /\ \A i \in 1..Len(ev) : \E j \in 1..Len(ev_raw) : ev[i] = ev_raw[j]
        /\ \A j \in 1..Len(ev_raw) :
              ev_raw[j].group # Security => Copies(ev, ev_raw[j]) = Copies(ev_raw, ev_raw[j])
        /\ \A j \in 1..Len(ev_raw) :
              ev_raw[j].group = Security =>
                 LET same == {k \in 1..Len(ev_raw) : /\ ev_raw[k].group = Security
                                                     /\ SecKey(ev_raw[k]) = SecKey(ev_raw[j])}
                     kept == {i \in 1..Len(ev) : /\ ev[i].group = Security
                                                 /\ SecKey(ev[i]) = SecKey(ev_raw[j])}
                 IN  /\ Cardinality(kept) = 1
                     /\ \A i \in kept : ev[i] = ev_raw[SetMin(same)]

\* Two security events of one day with different texts and the same normalized
\* text: one is left; the same two texts on different days: both are left
C13_Witness ==
    /\ pc = "compressed"
    /\ Len(ev_raw) = 2
    /\ ev_raw[1].event = Ev_ObstrelBelgoroda
    /\ ev_raw[2].event = Ev_ObstrelBelgorodaPovtor
    /\ ev_raw[1].event_date = ev_raw[2].event_date
    /\ ev = <<ev_raw[1]>>

\* C14: a catalog with 'Obstrel v Belgorode' and 'obstrel Belgoroda (povtor)' on
\* the same date is reduced to a single security entry for that date.
C14_BelgorodUpdatesMerged ==
    pc = "compressed" =>
        \A i, j \in 1..Len(ev_raw) :
            ( /\ ev_raw[i].event = Ev_ObstrelVBelgorode
              /\ ev_raw[j].event = Ev_ObstrelBelgorodaPovtor
              /\ ev_raw[i].event_date = ev_raw[j].event_date )
            => Cardinality({k \in 1..Len(ev) :
                               /\ ev[k].group = Security
                               /\ ev[k].event_date = ev_raw[i].event_date
                               /\ ev[k].event \in {Ev_ObstrelVBelgorode,
                                                   Ev_ObstrelBelgorodaPovtor}}) = 1

-----------------------------------------------------------------------------
(* Daily news features of build_news_compact_features                      *)

NEWS_GROUP_WEIGHTS ==
    [g \in Groups |->
        IF g \in {Security, "Sankcii/finansy"} THEN 0 - 2
        ELSE IF g \in {"Denezhnaya politika", "IT/platezhi/sboi", "Energetika/rynki"}
             THEN 0 - 1
        ELSE IF g = "Prazdniki/obschestvo" THEN 1
        ELSE 0]

\* The groups in the order of the columns of mat (unstack sorts the labels)
ColumnOrder ==
    <<"IT/platezhi/sboi", Security, "Denezhnaya politika", "Politika/pravo/vybory",
      "Prazdniki/obschestvo", "Sankcii/finansy", DefaultGroup, "Energetika/rynki">>

\* full_range: every day from the first to the last msk_day of the records
full_range(t) ==
    IF t = <<>> THEN {}
    ELSE SetMin({t[i].msk_day : i \in 1..Len(t)})..SetMax({t[i].msk_day : i \in 1..Len(t)})

\* The columns of mat: the groups of the catalog; none when the catalog or the
\* range is empty
mat_columns(e, range) ==
    IF e = <<>> \/ range = {} THEN {} ELSE {e[i].group : i \in 1..Len(e)}

\* mat[d][g]: events of group g dated d; reindex(full_range) drops other dates
mat(e, range, d, g) ==
    IF d \in range
    THEN Cardinality({i \in 1..Len(e) : e[i].event_date = d /\ e[i].group = g})
    ELSE 0

\* The sum of the values of the function f
RECURSIVE SumOver(_)
SumOver(f) ==
    IF DOMAIN f = {} THEN 0
    ELSE LET x == CHOOSE x \in DOMAIN f : TRUE
         IN  f[x] + SumOver([y \in DOMAIN f \ {x} |-> f[y]])

\* mat[cols].sum(axis=1) at day d
row_sum(e, range, d, cols) ==
    SumOver([g \in cols |-> mat(e, range, d, g)])

\* A window that is not shifted: the w days ending with D itself
rolling_days_unshifted(range, D, w) == {d \in range : D - w + 1 <= d /\ d <= D}

\* The days of series.shift(1).rolling(w, min_periods=1) at day D: the rows of
\* the range among the w days before D
rolling_days(range, D, w) == {d \in range : D - w <= d /\ d <= D - 1}

\* mat[cols].sum(axis=1).shift(1).rolling(w, min_periods=1).sum().fillna(0)
rolling_sum(e, range, D, w, cols) ==
    SumOver([d \in rolling_days(range, D, w) |-> row_sum(e, range, d, cols)])

\* tone_day = mat.mul(w, axis=1).sum(axis=1)
tone_day(e, range, d) ==
    SumOver([g \in mat_columns(e, range) |-> mat(e, range, d, g) * NEWS_GROUP_WEIGHTS[g]])

\* tone_day.shift(1).rolling(5, min_periods=1).mean().fillna(0) as <<sum, days>>
tone_last5(e, range, D) ==
    LET W == rolling_days(range, D, 5)
    IN  IF W = {} THEN <<0, 1>>
        ELSE <<SumOver([d \in W |-> tone_day(e, range, d)]), Cardinality(W)>>

\* (pres.shift(1).rolling(5, min_periods=1).max().fillna(0)).sum(axis=1)
topics_last5(e, range, D) ==
    Cardinality({g \in mat_columns(e, range) :
                    \E d \in rolling_days(range, D, 5) : mat(e, range, d, g) > 0})

\* (day_total > 0).astype(int).shift(1).rolling(14, min_periods=1).sum().fillna(0)
span14(e, range, D) ==
    Cardinality({d \in rolling_days(range, D, 14) :
                    row_sum(e, range, d, mat_columns(e, range)) > 0})

\* major_groups with include_monetary_in_major of NEWS_CONFIG
major_groups == {Security, "Sankcii/finansy", "Denezhnaya politika"}

\* recency = idx - last_idx, last_idx the forward-filled index of the last row
\* with a major event; 9999 where there is none
recency(e, range, D) ==
    LET cols == mat_columns(e, range) \cap major_groups
        M == {d \in range : d <= D /\ row_sum(e, range, d, cols) > 0}
    IN  IF M = {} THEN 9999 ELSE D - SetMax(M)

\* mat.idxmax(axis=1).where(day_total > 0, 'net'): the first column holding the
\* largest count
day_group(e, range, d) ==
    LET cols == mat_columns(e, range)
        best == {g \in cols : \A h \in cols : mat(e, range, d, g) >= mat(e, range, d, h)}
    IN  IF row_sum(e, range, d, cols) = 0 THEN "net"
        ELSE ColumnOrder[SetMin({k \in 1..Len(ColumnOrder) : ColumnOrder[k] \in best})]

cut_tone_change(v) ==
    IF v = NaN THEN "bez izmeneniy"
    ELSE IF v <= 0 - 2 THEN "rezko negativnee"
    ELSE IF v < 0 THEN "negativnee"
    ELSE IF v >= 2 THEN "rezko pozitivnee"
    ELSE IF v > 0 THEN "pozitivnee"
    ELSE "bez izmeneniy"

cut_burst(x) == IF x <= 0 THEN "0" ELSE IF x <= 2 THEN "1-2" ELSE IF x <= 5 THEN "3-5" ELSE "6+"
cut_topics(x) == IF x <= 0 THEN "0" ELSE IF x <= 2 THEN "1-2" ELSE IF x <= 4 THEN "3-4" ELSE "5+"

\* cut_tone of the value v[1] / v[2]: thresholds -2, -0.5, 0.5, 2
cut_tone(v) ==
    IF v[1] <= (0 - 2) * v[2] THEN "silno negativnyy"
    ELSE IF 2 * v[1] < 0 - v[2] THEN "negativnyy"
    ELSE IF 2 * v[1] <= v[2] THEN "neytralnyy"
    ELSE IF v[1] < 2 * v[2] THEN "pozitivnyy"
    ELSE "silno pozitivnyy"

cut_macro(x) == IF x <= 0 THEN "0" ELSE IF x = 1 THEN "1" ELSE IF x <= 3 THEN "2-3" ELSE "4+"
cut_small(x) == IF x <= 0 THEN "0" ELSE IF x = 1 THEN "1" ELSE "2+"
cut_recency(dv) == IF dv <= 1 THEN "0-1" ELSE IF dv <= 3 THEN "2-3" ELSE IF dv <= 7 THEN "4-7" ELSE ">7"
cut_span14(x) == IF x <= 2 THEN "0-2" ELSE IF x <= 5 THEN "3-5" ELSE IF x <= 9 THEN "6-9" ELSE "10-14"

macro_groups == {"Sankcii/finansy", DefaultGroup, "Politika/pravo/vybory", "Denezhnaya politika"}

\* The row of day D: the series tone_day and recency and the categories of
\* news_daily
news_row(e, range, D) ==
    LET cols == mat_columns(e, range)
    IN  [tone_day |-> tone_day(e, range, D),
         recency  |-> recency(e, range, D),
         news_tone_change_cat |->
            cut_tone_change(IF D - 1 \in range
                            THEN tone_day(e, range, D) - tone_day(e, range, D - 1)
                            ELSE NaN),
         news_day_group7 |-> day_group(e, range, D),
         news_burst_last5_cat |-> cut_burst(rolling_sum(e, range, D, 5, cols)),
         news_topics_last5_cat |-> cut_topics(topics_last5(e, range, D)),
         news_tone_day_cat |-> cut_tone(<<tone_day(e, range, D), 1>>),
         news_tone_last5_cat |-> cut_tone(tone_last5(e, range, D)),
         news_macro_risk_last5_cat |->
            cut_macro(rolling_sum(e, range, D, 5, cols \cap macro_groups)),
         news_security_risk_last5_cat |->
            cut_macro(rolling_sum(e, range, D, 5, cols \cap {Security})),
         news_it_pay_last5_cat |->
            cut_small(rolling_sum(e, range, D, 5, cols \cap {"IT/platezhi/sboi"})),
         news_energy_last5_cat |->
            cut_small(rolling_sum(e, range, D, 5, cols \cap {"Energetika/rynki"})),
         news_recency_major_cat |-> cut_recency(recency(e, range, D)),
         news_span_last14_cat |-> cut_span14(span14(e, range, D))]

\* is_hol of day d: some record of the day has a cal_holiday_type4 other than
\* 'net'; 0 when the records have no such column
is_hol(t, d) ==
    \E i \in 1..Len(t) :
        /\ t[i].msk_day = d
        /\ "cal_holiday_type4" \in DOMAIN t[i]
        /\ t[i].cal_holiday_type4 # "net"

\* overlay(row) of news_holiday_overlay_cat
overlay(t, e, range, d) ==
    IF ~is_hol(t, d) THEN "net"
    ELSE IF row_sum(e, range, d, mat_columns(e, range)) > 0 THEN "prazdnik+sobytiya"
    ELSE "prazdnik_bez_sobytiy"

\* news_daily: one row for each day of full_range
news_daily_table(t, e) ==
    [d \in full_range(t) |->
        WithCols(news_row(e, full_range(t), d),
                 [news_holiday_overlay_cat |-> overlay(t, e, full_range(t), d)])]

\* The columns of news_daily that are merged onto the records
NewsCols ==
    {"news_tone_change_cat", "news_day_group7", "news_burst_last5_cat",
     "news_topics_last5_cat", "news_tone_day_cat", "news_tone_last5_cat",
     "news_macro_risk_last5_cat", "news_security_risk_last5_cat",
     "news_it_pay_last5_cat", "news_energy_last5_cat", "news_recency_major_cat",
     "news_span_last14_cat", "news_holiday_overlay_cat"}

\* out.merge(news_daily, on='msk_day', how='left')
merge_news(t, daily) ==
    [i \in 1..Len(t) |->
        WithCols(t[i], [c \in NewsCols |-> daily[t[i].msk_day][c]])]

-----------------------------------------------------------------------------
(* The news step on a record table                                         *)

\* news_daily over full_range; out = out.merge(news_daily, on='msk_day')
BuildNews ==
    /\ pc = "compressed"
    /\ news_daily' = news_daily_table(df, ev)
    /\ df' = merge_news(df, news_daily')
    /\ pc' = "news"
    /\ UNCHANGED <<ru_hol, cal_df, wth_arg, mag_file, wx_vars, events_file, ev_raw, ev, audit, astro_vars>>

\* First msk_day of the record tables of the news runs
N0 == D_Mar07

\* The record tables: two records last_w + 1 days apart, or three records
\* over long_w + 1 days that went through the calendar step (the second is of
\* 8 March)
NewsRecords ==
    {<<[msk_day |-> N0], [msk_day |-> N0 + 5 + 1]>>,
     <<[msk_day |-> N0, cal_holiday_type4 |-> "net"],
       [msk_day |-> N0 + 1, cal_holiday_type4 |-> "fed_klyuchevoy"],
       [msk_day |-> N0 + 14 + 1, cal_holiday_type4 |-> "net"]>>}

\* The rows of the events files: a security event and an IT event the day
\* before the records begin, on their second day and on the seventh day, and a
\* holiday event on the second day
NewsRows ==
    {EventRow(d, x) : d \in {N0 - 1, N0 + 1, N0 + 5 + 1},
                      x \in {<<Cat_Unknown, Ev_ObstrelBelgoroda>>,
                             <<Cat_Unknown, Ev_ITSboj>>}}
        \cup {EventRow(N0 + 1, <<Cat_Unknown, Ev_Parad>>)}

InitNewsDaily ==
    /\ pc = "news_start"
    /\ df \in NewsRecords
    /\ ru_hol = {}
    /\ cal_df = <<>>
    /\ wth_arg = <<>>
    /\ mag_file = NoMagFile
    /\ NoWeatherLoop
    /\ events_file \in UNION {[1..n -> NewsRows] : n \in 0..MaxEvents}
    /\ ev_raw = <<>>
    /\ ev = <<>>
    /\ audit \in {[print |-> b, outcome |-> "none"] : b \in BOOLEAN}
    /\ news_daily = <<>>
    /\ NoAstro

NextNewsDaily == LoadEvents \/ AuditEvents \/ CompressEvents \/ BuildNews

\* build_news_compact_features on a record table and an events file
SpecNewsDaily == InitNewsDaily /\ [][NextNewsDaily]_vars

-----------------------------------------------------------------------------
(* Claims about the daily news features                                    *)

\* The events of the catalog e dated from day a to day b
Within(e, a, b) ==
    select_rows(e, [i \in 1..Len(e) |-> a <= e[i].event_date /\ e[i].event_date <= b])

\* The categories of a daily row that look back last_w days
Last5Cols ==
    {"news_burst_last5_cat", "news_topics_last5_cat", "news_tone_last5_cat",
     "news_macro_risk_last5_cat", "news_security_risk_last5_cat",
     "news_it_pay_last5_cat", "news_energy_last5_cat"}

present_groups(e, d) == {e[i].group : i \in {k \in 1..Len(e) : e[k].event_date = d}}

\* C16: on every day the tone score is the sum of the weights of the groups
\* that have at least one event that day, each group counted once.
C16_ToneIsWeightedPresence ==
    pc = "news" =>
        \A D \in DOMAIN news_daily :
            news_daily[D].tone_day =
                SumOver([g \in present_groups(ev, D) |-> NEWS_GROUP_WEIGHTS[g]])

\* The days up to D with a catalogued event of a major group
major_days(e, D) ==
    {e[i].event_date : i \in {k \in 1..Len(e) : e[k].group \in major_groups
                                                /\ e[k].event_date <= D}}

\* C17: on every day D the recency is the number of days since the latest day
\* up to D with a catalogued major event, days before the first record
\* included, and 9999 only when the catalog has no major event up to D.
C17_RecencyCountsEarlierMajorEvents ==
    pc = "news" =>
        \A D \in DOMAIN news_daily :
            news_daily[D].recency =
                IF major_days(ev, D) = {} THEN 9999 ELSE D - SetMax(major_days(ev, D))

\* The table build_news_compact_features returns for the records t and the
\* events file f when no auditing pass runs
news_without_audit(t, f) ==
    LET loaded == _load_events_from_tsv(f)
        e == IF loaded = <<>> THEN loaded ELSE _compress_security_updates(loaded)
    IN  merge_news(t, news_daily_table(t, e))

\* The records without the merged news columns
input_records(t) ==
    [i \in 1..Len(t) |-> [c \in DOMAIN t[i] \ NewsCols |-> t[i][c]]]

\* C18: whatever the auditing pass did, the run is not ended by it, the
\* catalog after it is the loaded one, and the returned table is the one of a
\* run without the pass.
C18_AuditLeavesResultAlone ==
    /\ pc # "raised"
    /\ pc \in {"audited", "compressed", "news"} =>
          ev_raw = _load_events_from_tsv(events_file)
    /\ pc = "news" => df = news_without_audit(input_records(df), events_file)

\* A run whose auditing pass completed on a catalog with a repeated row, and a
\* run whose pass raised, both with the daily table built
C18_Witness ==
    /\ pc = "news"
    /\ audit.print
    /\ \/ /\ audit.outcome = "completed"
          /\ Len(ev_raw) = 2 /\ ev_raw[1] = ev_raw[2]
       \/ /\ audit.outcome = "raised inside"
          /\ ev_raw = <<>>

-----------------------------------------------------------------------------
(* The astro tension index: add_astro_tension_index                        *)

ASTRO_TENSION_WINDOW == <<5>>

\* event_weights, in the order of the dictionary
event_weights ==
    [is_retrograde_any_cat |-> 1, is_ingress_any_cat |-> 2, is_station_any_cat |-> 3,
     lunnoe_zatmenie_cat |-> 5, solnechnoe_zatmenie_cat |-> 5]

\* astro_flags: the flag columns the table has
astro_flags(t) ==
    {c \in DOMAIN event_weights : \A i \in 1..Len(t) : c \in DOMAIN t[i]}

\* unique_dates: the distinct (tz, day_local, flags) of the rows that have a
\* day_local
unique_dates(t) ==
    {[c \in {"tz", "day_local"} \cup astro_flags(t) |-> t[i][c]] :
        i \in {k \in 1..Len(t) : t[k].day_local # NaT}}

\* The rows s.shift(1).rolling(w, min_periods=1) adds up at the row (tz, D) of
\* the sorted group of tz: the w rows before it
rows_in_window(u, tz, D, w) ==
    LET before == {r \in u : r.tz = tz /\ r.day_local < D}
    IN  {r \in before :
            Cardinality({q \in before : q.day_local > r.day_local}) < w}

\* map({'da': 1, 'net': 0}).fillna(0)
flag_value(x) == IF x = "da" THEN 1 ELSE 0

\* tension_score of the row (tz, D) of unique_dates
tension_score(u, cols, tz, D, w) ==
    SumOver([c \in cols |->
        event_weights[c] *
            Cardinality({r \in rows_in_window(u, tz, D, w) : flag_value(r[c]) = 1})])

bin_tension(v) ==
    IF v = 0 THEN "Spokoyno"
    ELSE IF v <= 4 THEN "Legkoe napryazhenie"
    ELSE IF v <= 9 THEN "Srednee napryazhenie"
    ELSE IF v <= 14 THEN "Vysokoe napryazhenie"
    ELSE "Ochen vysokoe"

\* The name of the column of window w
tension_col(w) == "astro_tension_last" \o ToString(w) \o "_cat"

\* One pass of the loop over the windows: the labels of unique_dates merged
\* onto the rows by (tz, day_local); a row without a day_local gets no label
add_tension_window(t, w) ==
    LET u == unique_dates(t)
        cols == astro_flags(t)
        label(r) == IF r.day_local = NaT THEN "NaN"
                    ELSE bin_tension(tension_score(u, cols, r.tz, r.day_local, w))
    IN  [i \in 1..Len(t) |-> (tension_col(w) :> label(t[i])) @@ t[i]]

RECURSIVE add_tension_windows(_, _)
add_tension_windows(t, windows) ==
    IF windows = <<>> THEN t
    ELSE add_tension_windows(add_tension_window(t, Head(windows)), Tail(windows))

\* add_astro_tension_index: the table itself when it has no flag column
add_astro_tension_index(t, windows) ==
    IF astro_flags(t) = {} THEN t ELSE add_tension_windows(t, windows)

AddAstroTension ==
    /\ pc = "astro_start"
    /\ df' = add_astro_tension_index(df, ASTRO_TENSION_WINDOW)
    /\ pc' = "astro_tension"
    /\ UNCHANGED <<ru_hol, cal_df, wth_arg, mag_file, wx_vars, news_vars, astro_vars>>

\* The flags of a day as get_astro_cats_only reports them: a quiet day, a
\* retrograde, an ingress with a station, the two eclipse windows together
SkyStates ==
    {[is_retrograde_any_cat |-> a, is_ingress_any_cat |-> b, is_station_any_cat |-> b,
      lunnoe_zatmenie_cat |-> c, solnechnoe_zatmenie_cat |-> c] :
        a, b, c \in {"da", "net"}}

\* The local dates of the tables: two neighbouring days and a day a week later
AstroDays == {D_Mar07, D_Mar07 + 1, D_Mar07 + 7 + 1}

\* The rows of a table that went through the astro merge, and a row whose
\* timestamp could not be parsed
AstroRows ==
    {[tz |-> z, day_local |-> d] @@ flags :
        z \in {"Europe/Moscow", "Asia/Vladivostok"}, d \in AstroDays, flags \in SkyStates}
      \cup {[tz |-> "Europe/Moscow", day_local |-> NaT] @@ [c \in DOMAIN event_weights |-> NaN]}

InitAstroTension ==
    /\ pc = "astro_start"
    /\ df \in UNION {[1..n -> AstroRows] : n \in 0..MaxRecs}
    /\ \A i, j \in 1..Len(df) :
          (df[i].tz = df[j].tz /\ df[i].day_local = df[j].day_local) => df[i] = df[j]
    /\ ru_hol = {}
    /\ cal_df = <<>>
    /\ wth_arg = <<>>
    /\ mag_file = NoMagFile
    /\ NoWeatherLoop
    /\ NoNews
    /\ NoAstro

NextAstroTension == AddAstroTension

\* add_astro_tension_index on an enriched table
SpecAstroTension == InitAstroTension /\ [][NextAstroTension]_vars

\* The rows of the same timezone dated within the w calendar days before D
days_in_window(u, tz, D, w) ==
    {r \in u : r.tz = tz /\ D - w <= r.day_local /\ r.day_local <= D - 1}

\* C19: the label of every row with a local date D is the bucket of the sum,
\* over the five flags, of the weight times the number of local dates of the
\* same timezone within the 5 calendar days before D that have the flag set.
C19_TensionCountsCalendarWindow ==
    pc = "astro_tension" =>
        \A i \in 1..Len(df) :
            df[i].day_local # NaT =>
                df[i].astro_tension_last5_cat =
                    bin_tension(SumOver([c \in DOMAIN event_weights |->
                        event_weights[c] *
                            Cardinality({r \in days_in_window(unique_dates(df), df[i].tz,
                                                              df[i].day_local, 5) :
                                            r[c] = "da"})]))

-----------------------------------------------------------------------------
(* The input columns through enrich_data_full                              *)

\* initial_cols of the input tables
initial_cols == {"business_dt", "region"}

\* Texts of the timestamp column
Txt_Mar07_12 == <<"2", "0", "2", "4", "-", "0", "3", "-", "0", "7", " ", "1", "2", ":", "0", "0">>
Txt_Mar07_20 == <<"2", "0", "2", "4", "-", "0", "3", "-", "0", "7", " ", "2", "0", ":", "0", "0">>
Txt_Feb30    == <<"2", "0", "2", "4", "-", "0", "2", "-", "3", "0", " ", "1", "2", ":", "0", "0">>
Txt_na       == <<"n", "/", "a">>

\* The values of the timestamp column: Timestamps, and texts as a table read
\* from a text file holds them
InputStamps ==
    {<<D_Mar07, 12>>, <<D_Mar07, 20>>, Txt_Mar07_12, Txt_Mar07_20, Txt_Feb30, Txt_na}

InitInputColumns ==
    /\ pc = "start"
    /\ df \in [1..MaxRecs -> {RawRow(x, r) : x \in InputStamps, r \in InRegions}]
    /\ ru_hol = {}
    /\ cal_df = <<>>
    /\ wth_arg = <<>>
    /\ mag_file = NoMagFile
    /\ NoWeatherLoop
    /\ NoNews
    /\ NoAstro

NextInputColumns == Localize

\* The first step of enrich_data_full over tables whose timestamp column holds
\* Timestamps or text
SpecInputColumns == InitInputColumns /\ [][NextInputColumns]_vars

\* C20: no step of enrich_data_full drops a record or an input column, or
\* changes the value of an input column of a record.
C20_InputColumnsUnchanged ==
    [][/\ Len(df') = Len(df)
       /\ \A i \in 1..Len(df) :
             \A c \in initial_cols :
                 /\ c \in DOMAIN df'[i]
                 /\ df'[i][c] = df[i][c]]_vars

-----------------------------------------------------------------------------
(* The record weight: ww_weight of enrich_data_full                        *)

\* A cell without a value
MissingCell == <<"NaN">>

\* astype(str): a text stays, a missing cell becomes the text 'nan'
astype_str(x) == IF x = MissingCell THEN <<"lat_n", "lat_a", "lat_n">> ELSE x

\* The characters of the class [0-9eE\.\-\+]
IsNumChar(c) == c \in DOMAIN DigitVal \/ c \in {"lat_e", "LAT_E", ".", "-", "+"}

\* replace(',', '.') without the deletion of the other characters
comma_to_point(x) == [i \in 1..Len(x) |-> IF x[i] = "," THEN "." ELSE x[i]]

\* replace(',', '.') and replace('[^0-9eE\.\-\+]', '') of one text
clean_weight(x) ==
    LET y == comma_to_point(x)
    IN  select_rows(y, [i \in 1..Len(y) |-> IsNumChar(y[i])])

\* The last position of the run of digits of s that begins at i; i - 1 when
\* s[i] is no digit
DigitsRun(s, i) ==
    LET N == {j \in i..Len(s) : \A k \in i..j : s[k] \in DOMAIN DigitVal}
    IN  IF N = {} THEN i - 1 ELSE SetMax(N)

\* The number the digits s[a..b] spell, 0 for none
RECURSIVE IntOf(_, _, _)
IntOf(s, a, b) == IF b < a THEN 0 ELSE 10 * IntOf(s, a, b - 1) + DigitVal[s[b]]

RECURSIVE Pow10(_)
Pow10(n) == IF n <= 0 THEN 1 ELSE 10 * Pow10(n - 1)

\* pd.to_numeric(s, errors='coerce') of one text, in tenths: an optional sign,
\* digits with an optional point, an optional exponent; NaN for any other text.
\* Digits beyond the first decimal are cut
to_numeric(s) ==
    LET p0      == IF s # <<>> /\ s[1] \in {"+", "-"} THEN 2 ELSE 1
        sign    == IF s # <<>> /\ s[1] = "-" THEN 0 - 1 ELSE 1
        intEnd  == DigitsRun(s, p0)
        dot     == intEnd + 1 <= Len(s) /\ s[intEnd + 1] = "."
        fracEnd == IF dot THEN DigitsRun(s, intEnd + 2) ELSE intEnd
        fracLen == IF dot THEN fracEnd - (intEnd + 1) ELSE 0
        q       == IF dot THEN fracEnd + 1 ELSE intEnd + 1
        hasExp  == q <= Len(s)
        e0      == IF q + 1 <= Len(s) /\ s[q + 1] \in {"+", "-"} THEN q + 2 ELSE q + 1
        esign   == IF q + 1 <= Len(s) /\ s[q + 1] = "-" THEN 0 - 1 ELSE 1
        expOk   == /\ s[q] \in {"lat_e", "LAT_E"}
                   /\ e0 <= Len(s)
                   /\ DigitsRun(s, e0) = Len(s)
        exp     == IF hasExp THEN esign * IntOf(s, e0, Len(s)) ELSE 0
        mant    == IntOf(s, p0, intEnd) * Pow10(fracLen) + IntOf(s, intEnd + 2, fracEnd)
        shift   == exp - fracLen + 1
    IN  IF (intEnd - p0 + 1) + fracLen = 0 THEN NaN
        ELSE IF hasExp /\ ~expOk THEN NaN
        ELSE IF shift >= 0 THEN sign * mant * Pow10(shift)
        ELSE sign * (mant \div Pow10(0 - shift))

\* ww_weight of one record, in tenths: fillna(1.0)
ww_weight_of(x) ==
    LET v == to_numeric(clean_weight(astype_str(x)))
    IN  IF v = NaN THEN 10 ELSE v

\* The final processing step: ww_weight from the column ww when the table has
\* one, 1.0 otherwise
AddWeights ==
    /\ pc = "magnetic"
    /\ df' = [i \in 1..Len(df) |->
                 WithCols(df[i],
                          [ww_weight |-> IF \A j \in 1..Len(df) : "ww" \in DOMAIN df[j]
                                         THEN ww_weight_of(df[i].ww)
                                         ELSE 10])]
    /\ pc' = "weighted"
    /\ UNCHANGED <<ru_hol, cal_df, wth_arg, mag_file, wx_vars, news_vars, astro_vars>>

\* Weight texts: '1,5', '1.5', '2', '0,5', '1e1', 'abc', '', '-', '1,5,5',
\* '2 kg' with the unit in Cyrillic, '12:30', and a missing cell
WeightTexts ==
    {<<"1", ",", "5">>, <<"1", ".", "5">>, <<"2">>, <<"0", ",", "5">>,
     <<"1", "lat_e", "1">>, <<"lat_a", "lat_b", "lat_c">>, <<>>, <<"-">>,
     <<"1", ",", "5", ",", "5">>, <<"2", " ", "k", "g">>,
     <<"1", "2", ":", "3", "0">>, MissingCell}

InitWeights ==
    /\ pc = "magnetic"
    /\ \/ df \in [1..MaxRecs -> {[region |-> "Moskva", ww |-> x] : x \in WeightTexts}]
       \/ df \in [1..MaxRecs -> {[region |-> r] : r \in InRegions}]
    /\ ru_hol = {}
    /\ cal_df = <<>>
    /\ wth_arg = <<>>
    /\ mag_file = NoMagFile
    /\ NoWeatherLoop
    /\ NoNews
    /\ NoAstro

NextWeights == AddWeights

\* The weight step of enrich_data_full over tables with and without a weight
\* field
SpecWeights == InitWeights /\ [][NextWeights]_vars

\* C21: every ww_weight is a number; it is 1.0 for every record of a table
\* without a weight field, 1.5 for the text '1,5', and 1.0 for every weight
\* text that is not a number once its commas are read as decimal points.
C21_WeightIsParsedOrOne ==
    pc = "weighted" =>
        \A i \in 1..Len(df) :
            /\ df[i].ww_weight # NaN
            /\ "ww" \notin DOMAIN df[i] => df[i].ww_weight = 10
            /\ "ww" \in DOMAIN df[i] =>
                  /\ df[i].ww = <<"1", ",", "5">> => df[i].ww_weight = 15
                  /\ to_numeric(comma_to_point(astype_str(df[i].ww))) = NaN =>
                        df[i].ww_weight = 10

-----------------------------------------------------------------------------
(* enrich_data_full with the three auxiliary sources absent                *)

\* pd.cut(daylight_hours, bins=[-0.1, 8, 12, 16, 24.1]) of whole hours
cut_daylight(h) ==
    IF h = NaN \/ h < 0 \/ h > 24 THEN "NaN"
    ELSE IF h <= 8 THEN "ochen korotkiy"
    ELSE IF h <= 12 THEN "korotkiy"
    ELSE IF h <= 16 THEN "dlinnyy"
    ELSE "ochen dlinnyy"

\* day_length_hours compute_daylight_features can report for a day of March:
\* a length of the day, or NaN when the computation raised
DaylightValues == {11, 13, NaN}

\* The branch of enrich_data_full taken when all_weather is empty: the length
\* of the day of every (region, local day) whose region has coordinates, and
\* its category
DaylightFallback ==
    /\ pc = "calendar"
    /\ \E hours \in [KeysOf(df) -> DaylightValues] :
          df' = [i \in 1..Len(df) |->
                    LET h == IF REGION_COORDS_MASTER(df[i].region_std) = {} THEN NaN
                             ELSE hours[<<df[i].region_std, df[i].day_local>>]
                    IN  WithCols(df[i], [daylight_hours |-> h,
                                         wth_daylight_duration_cat |-> cut_daylight(h)])]
    /\ pc' = "news_start"
    /\ UNCHANGED <<ru_hol, cal_df, wth_arg, mag_file, wx_vars, news_vars, astro_vars>>

\* No weather library, no events file, no geomagnetic files; audit_print is
\* set in NEWS_CONFIG
InitAllAbsent ==
    /\ pc = "start"
    /\ df \in [1..MaxRecs -> RawRows(D_Mar07, D_Mar07 + 1, Hours, InRegions)]
    /\ ru_hol = {D_Mar07 + 1}
    /\ cal_df = <<>>
    /\ wth_arg = <<>>
    /\ mag_file = NoMagFile
    /\ NoWeatherLoop
    /\ events_file = <<>>
    /\ ev_raw = <<>>
    /\ ev = <<>>
    /\ audit = [print |-> TRUE, outcome |-> "none"]
    /\ news_daily = <<>>
    /\ NoAstro

NextAllAbsent ==
    \/ Localize
    \/ AddCalendar
    \/ DaylightFallback
    \/ LoadEvents
    \/ AuditEvents
    \/ CompressEvents
    \/ BuildNews
    \/ AddMagnetic("news")

\* enrich_data_full from the input table to the geomagnetic step, every
\* auxiliary source absent
SpecAllAbsent == InitAllAbsent /\ [][NextAllAbsent]_vars

\* The derived weather, news and geomagnetic categories
AuxiliaryCats ==
    {"wth_daylight_duration_cat", "mag_storm_level_cat", "mag_storm_change_cat"}
        \cup NewsCols

\* C22: with the three sources absent the run reaches its end with as many rows
\* as the input and the input columns, and every derived weather, news and
\* geomagnetic column that is present is NaN on every row or 'dannye
\* nedostupny' on every row.
C22_AbsentSourcesGiveNullOrUnavailable ==
    /\ pc \notin {"aborted", "raised"}
    /\ pc = "magnetic" =>
          /\ Len(df) = MaxRecs
          /\ \A i \in 1..Len(df) : initial_cols \subseteq DOMAIN df[i]
          /\ \A i \in 1..Len(df) :
                "daylight_hours" \in DOMAIN df[i] => df[i].daylight_hours = NaN
          /\ \A c \in AuxiliaryCats :
                \/ \A i \in 1..Len(df) : c \in DOMAIN df[i] => df[i][c] = "NaN"
                \/ \A i \in 1..Len(df) : c \in DOMAIN df[i] => df[i][c] = "dannye nedostupny"

-----------------------------------------------------------------------------
(* The memo of get_astro_cats_only: functools.lru_cache                    *)

\* The (date, tz) keys of the calls
AstroKeys ==
    {<<D_Mar07, "Europe/Moscow">>, <<D_Mar07, "Asia/Vladivostok">>,
     <<D_Mar07 + 1, "Europe/Moscow">>}

\* The computation of a key raised
Raises == [error |-> "raised"]

\* What the computation of a key gives: the categories of a quiet day or of a
\* day with a retrograde planet, or an exception
SkyValues ==
    {x \in SkyStates : x.is_ingress_any_cat = "net" /\ x.lunnoe_zatmenie_cat = "net"}
        \cup {Raises}

\* A lookup that reads the date of the key only
lru_find_by_date(entries, key) ==
    {i \in 1..Len(entries) : entries[i].key[1] = key[1]}

\* The entry of the memo stored under the exact key
lru_find(entries, key) ==
    {i \in 1..Len(entries) : entries[i].key = key}

\* One call of an lru_cache wrapper with the argument tuple key, direct being
\* what the wrapped function gives for key: a hit returns the stored result
\* and makes the entry the most recent; a miss stores the result, evicting the
\* least recent entry of a full memo; an exception stores nothing
lru_cache_call(cache, key, direct) ==
    LET I == lru_find(cache.entries, key)
    IN  IF I # {}
        THEN LET i == SetMin(I)
                 rest == select_rows(cache.entries,
                                     [j \in 1..Len(cache.entries) |-> j # i])
             IN  [cache |-> [cache EXCEPT !.entries = Append(rest, cache.entries[i]),
                                          !.hits = @ + 1],
                  val |-> cache.entries[i].val, hit |-> TRUE]
        ELSE IF "error" \in DOMAIN direct
        THEN [cache |-> cache, val |-> direct, hit |-> FALSE]
        ELSE LET kept == IF Len(cache.entries) >= maxsize
                         THEN Tail(cache.entries) ELSE cache.entries
             IN  [cache |-> [cache EXCEPT
                                !.entries = Append(kept, [key |-> key, val |-> direct]),
                                !.misses = @ + 1],
                  val |-> direct, hit |-> FALSE]

\* A call get_astro_cats_only(date, tz)
AstroCall ==
    /\ pc = "astro_calls"
    /\ astro_cache.hits + astro_cache.misses < MaxCalls
    /\ \E k \in AstroKeys :
          LET r == lru_cache_call(astro_cache, k, sky[k])
          IN  /\ astro_cache' = r.cache
              /\ astro_ret' = [key |-> k, val |-> r.val, hit |-> r.hit]
    /\ UNCHANGED <<pc, df, ru_hol, cal_df, wth_arg, mag_file, wx_vars, news_vars, sky>>

InitAstroCalls ==
    /\ pc = "astro_calls"
    /\ df = <<>>
    /\ ru_hol = {}
    /\ cal_df = <<>>
    /\ wth_arg = <<>>
    /\ mag_file = NoMagFile
    /\ NoWeatherLoop
    /\ NoNews
    /\ sky \in [AstroKeys -> SkyValues]
    /\ astro_cache = NoAstroCache
    /\ astro_ret = [key |-> <<>>, val |-> <<>>, hit |-> FALSE]

NextAstroCalls == AstroCall

\* Any sequence of calls of get_astro_cats_only
SpecAstroCalls == InitAstroCalls /\ [][NextAstroCalls]_vars

\* C23: every call returns what the direct computation gives for its key,
\* every stored entry holds what the direct computation gives for its key (so
\* does the next hit), and the memo never holds more than maxsize entries or
\* two entries of one key.
C23_MemoEqualsDirect ==
    /\ astro_ret.key # <<>> => astro_ret.val = sky[astro_ret.key]
    /\ \A i \in 1..Len(astro_cache.entries) :
          /\ astro_cache.entries[i].val = sky[astro_cache.entries[i].key]
          /\ \A j \in 1..Len(astro_cache.entries) :
                astro_cache.entries[j].key = astro_cache.entries[i].key => j = i
    /\ Len(astro_cache.entries) <= maxsize

\* A key computed again after its entry was evicted: more misses than keys,
\* none of them raising
C23_Witness ==
    /\ \A k \in AstroKeys : "error" \notin DOMAIN sky[k]
    /\ astro_cache.misses > Cardinality(AstroKeys)
    /\ ~astro_ret.hit
    /\ astro_ret.val = sky[astro_ret.key]

-----------------------------------------------------------------------------
(* The astro step of enrich_data_full                                      *)

\* keys = df[['day_local','tz']].dropna().drop_duplicates(): the keys in the
\* order of their first record
RECURSIVE astro_keys(_, _)
astro_keys(t, seen) ==
    IF t = <<>> THEN <<>>
    ELSE LET k == <<t[1].day_local, t[1].tz>>
         IN  IF t[1].day_local = NaT \/ k \in seen THEN astro_keys(Tail(t), seen)
             ELSE <<k>> \o astro_keys(Tail(t), seen \cup {k})

\* The list comprehension astro_rows: one call of get_astro_cats_only for each
\* key in turn; an exception of a call leaves the comprehension
RECURSIVE astro_rows(_, _, _, _)
astro_rows(cache, keys, rows, last) ==
    IF keys = <<>> THEN [cache |-> cache, rows |-> rows, raised |-> FALSE, last |-> last]
    ELSE LET r == lru_cache_call(cache, Head(keys), sky[Head(keys)])
             this == [key |-> Head(keys), val |-> r.val, hit |-> r.hit]
         IN  IF "error" \in DOMAIN r.val
             THEN [cache |-> r.cache, rows |-> rows, raised |-> TRUE, last |-> this]
             ELSE astro_rows(r.cache, Tail(keys),
                             Append(rows, [key |-> Head(keys), val |-> r.val]), this)

\* df.merge(pd.DataFrame(astro_rows), on=['day_local','tz'], how='left'); no
\* merge when there is no row
merge_astro(t, rows) ==
    IF rows = <<>> THEN t
    ELSE [i \in 1..Len(t) |->
            LET I == lru_find(rows, <<t[i].day_local, t[i].tz>>)
            IN  WithCols(t[i], IF I = {} THEN [c \in DOMAIN event_weights |-> "NaN"]
                               ELSE rows[SetMin(I)].val)]

AddAstro ==
    /\ pc = "localized"
    /\ LET r == astro_rows(astro_cache, astro_keys(df, {}), <<>>, astro_ret)
       IN  /\ astro_cache' = r.cache
           /\ astro_ret' = r.last
           /\ IF r.raised
              THEN pc' = "aborted" /\ df' = df
              ELSE pc' = "astro" /\ df' = merge_astro(df, r.rows)
    /\ UNCHANGED <<ru_hol, cal_df, wth_arg, mag_file, wx_vars, news_vars, sky>>

InitAstroStep ==
    /\ pc = "start"
    /\ df \in [1..MaxRecs -> RawRows(D_Mar07, D_Mar07, Hours, InRegions)]
    /\ ru_hol = {}
    /\ cal_df = <<>>
    /\ wth_arg = <<>>
    /\ mag_file = NoMagFile
    /\ NoWeatherLoop
    /\ NoNews
    /\ sky \in [{D_Mar07, D_Mar07 + 1} \X {"Europe/Moscow", "Asia/Vladivostok"} -> SkyValues]
    /\ astro_cache = NoAstroCache
    /\ astro_ret = [key |-> <<>>, val |-> <<>>, hit |-> FALSE]

NextAstroStep == Localize \/ AddAstro

\* enrich_data_full up to the astro merge
SpecAstroStep == InitAstroStep /\ [][NextAstroStep]_vars

\* C24: the run goes on past the astro step whatever the computation of a key
\* does, and after it the records of a key whose computation raised have
\* missing astro categories while the records of every other key have the
\* categories of their key.
C24_AstroFailureIsolated ==
    /\ pc # "aborted"
    /\ pc = "astro" =>
          \A i \in 1..Len(df) :
              LET v == sky[<<df[i].day_local, df[i].tz>>]
              IN  \A c \in DOMAIN event_weights :
                      /\ c \in DOMAIN df[i]
                      /\ df[i][c] = IF "error" \in DOMAIN v THEN "NaN" ELSE v[c]

-----------------------------------------------------------------------------
\* The calendar days the localisation writes

\* The zones region_to_tz can return for the regions of the model
ResolvedZones == {region_to_tz(region_std_of(r)) : r \in InRegions}

\* C25: after the localisation msk_day and day_local are calendar days, and no
\* record with a resolved timezone has a null day_local, whatever its business
\* timestamp
C25_ResolvedZoneHasLocalDay ==
    pc = "localized" =>
        \A i \in 1..Len(df) :
            /\ df[i].msk_day \in Int
            /\ df[i].day_local \in Int
            /\ df[i].tz \in ResolvedZones => df[i].day_local # NaT

-----------------------------------------------------------------------------
\* The lunar phase name of get_astro_cats_only.  The illuminated fraction is a
\* float of 0..100 percent; the model counts it in tenths of a percent.

Pct(n) == n * 10

PctValues == Pct(0)..Pct(100)

\* The bucketing with the first bound closed (p <= 5): differs at 5 percent
moon_phase_closed_at_5(p) ==
    IF p <= Pct(5) \/ p > Pct(95) THEN "Novolunie"
    ELSE IF p < Pct(45) THEN "Rastushchaya"
    ELSE IF p < Pct(55) THEN "Polnolunie"
    ELSE "Ubyvayushchaya"

moon_phase_name_from_pct(p) ==
    IF p < Pct(5) \/ p > Pct(95) THEN "Novolunie"
    ELSE IF p < Pct(45) THEN "Rastushchaya"
    ELSE IF p < Pct(55) THEN "Polnolunie"
    ELSE "Ubyvayushchaya"

\* moon_phase_cat = moon_phase_name_from_pct(pct)
MoonPhase ==
    /\ pc = "moon"
    /\ astro_ret' = [key |-> <<>>, val |-> [faza_luny |-> moon_phase_name_from_pct(sky.pct)],
                     hit |-> FALSE]
    /\ pc' = "moon_phase"
    /\ UNCHANGED <<df, ru_hol, cal_df, wth_arg, mag_file, wx_vars, news_vars, sky, astro_cache>>

InitMoonPhase ==
    /\ pc = "moon"
    /\ df = <<>>
    /\ ru_hol = {}
    /\ cal_df = <<>>
    /\ wth_arg = <<>>
    /\ mag_file = NoMagFile
    /\ NoWeatherLoop
    /\ NoNews
    /\ sky \in [pct : PctValues]
    /\ astro_cache = NoAstroCache
    /\ astro_ret = [key |-> <<>>, val |-> <<>>, hit |-> FALSE]

NextMoonPhase == MoonPhase

\* The phase name of every illuminated fraction of 0..100 percent
SpecMoonPhase == InitMoonPhase /\ [][NextMoonPhase]_vars

\* The four buckets as intervals of the fraction
PhaseBuckets ==
    [Novolunie      |-> (Pct(0)..(Pct(5) - 1)) \cup ((Pct(95) + 1)..Pct(100)),
     Rastushchaya   |-> Pct(5)..(Pct(45) - 1),
     Polnolunie     |-> Pct(45)..(Pct(55) - 1),
     Ubyvayushchaya |-> Pct(55)..Pct(95)]

\* C26: every illuminated fraction in [0,100] gets exactly one of the four
\* phases: Novolunie below 5 or above 95, Rastushchaya from 5 to below 45,
\* Polnolunie from 45 to below 55, Ubyvayushchaya from 55 to 95; the boundary 5
\* is Rastushchaya, 45 is Polnolunie, 55 and 95 are Ubyvayushchaya
C26_MoonPhaseBuckets ==
    pc = "moon_phase" =>
        LET name == astro_ret.val.faza_luny
            p    == sky.pct
        IN  /\ name \in DOMAIN PhaseBuckets
            /\ p \in PhaseBuckets[name]
            /\ \A other \in DOMAIN PhaseBuckets \ {name} : p \notin PhaseBuckets[other]
            /\ p = Pct(5) => name = "Rastushchaya"
            /\ p = Pct(45) => name = "Polnolunie"
            /\ p \in {Pct(55), Pct(95)} => name = "Ubyvayushchaya"

C26_Witness ==
    /\ pc = "moon_phase"
    /\ sky.pct = Pct(5)
    /\ astro_ret.val.faza_luny = "Rastushchaya"

-----------------------------------------------------------------------------
\* The hard aspects of get_astro_cats_only.  Ecliptic longitudes are whole
\* degrees of [0, 360); a speed is degrees per day.

ASPECT_PLANETS ==
    <<"Sun", "Moon", "Mercury", "Venus", "Mars", "Jupiter", "Saturn", "Uranus", "Neptune",
      "Pluto">>

PERSONAL_PLANETS == {"Sun", "Moon", "Mercury", "Venus", "Mars"}

HEAVY_PLANETS == {"Saturn", "Uranus", "Neptune", "Pluto"}

Bodies == {ASPECT_PLANETS[i] : i \in DOMAIN ASPECT_PLANETS}

\* The separation without the fold: the absolute difference alone
aspect_angle_unfolded(lon1, lon2) == Abs(lon1 - lon2)

\* angle = abs(degrees(lon1 - lon2)); angle = min(angle, 360 - angle)
aspect_angle(lon1, lon2) ==
    LET angle == Abs(lon1 - lon2)
    IN  Min2(angle, 360 - angle)

\* The orb of a pair with 8 degrees for every pair
orb_always_8(p1, p2) == 8

orb_of(p1, p2) == IF "Sun" \in {p1, p2} \/ "Moon" \in {p1, p2} THEN 8 ELSE 6

\* itertools.combinations(seq, 2): the pairs <<seq[i], seq[j]>>, i < j, in
\* lexicographic order of the positions
RECURSIVE combinations2(_)
combinations2(seq) ==
    IF Len(seq) < 2 THEN <<>>
    ELSE [j \in 1..(Len(seq) - 1) |-> <<seq[1], seq[j + 1]>>] \o combinations2(Tail(seq))

\* One pass of the loop body over the pair <<p1, p2>>
aspect_step(acc, p1, p2, lon) ==
    LET angle == aspect_angle(lon[p1], lon[p2])
        orb   == orb_of(p1, p2)
    IN  IF Abs(angle - 180) <= orb \/ Abs(angle - 90) <= orb
        THEN [hard_aspects_count  |-> acc.hard_aspects_count + 1,
              personal_hard       |-> acc.personal_hard +
                                      (IF p1 \in PERSONAL_PLANETS /\ p2 \in PERSONAL_PLANETS
                                       THEN 1 ELSE 0),
              weighted_hard_score |-> acc.weighted_hard_score +
                                      (IF p1 \in HEAVY_PLANETS \/ p2 \in HEAVY_PLANETS
                                       THEN 2 ELSE 1),
              hard_aspect_to_mars |-> IF "Mars" \in {p1, p2} THEN 1
                                      ELSE acc.hard_aspect_to_mars]
        ELSE acc

RECURSIVE aspects_loop(_, _, _)
aspects_loop(pairs, acc, lon) ==
    IF pairs = <<>> THEN acc
    ELSE aspects_loop(Tail(pairs), aspect_step(acc, Head(pairs)[1], Head(pairs)[2], lon), lon)

bin_hard(n) == IF n = 0 THEN "0" ELSE IF n = 1 THEN "1" ELSE ">=2"

bin_weighted_hard(n) ==
    IF n = 0 THEN "0" ELSE IF n <= 2 THEN "1-2" ELSE IF n <= 4 THEN "3-4" ELSE "5+"

\* The part of get_astro_cats_only from the retrograde flag of Mercury to the
\* aspect categories; loop holds the counters as the loop leaves them
hard_aspects(lon, speed) ==
    LET is_retro_mercury == IF speed["Mercury"] < 0 THEN 1 ELSE 0
        loop == aspects_loop(combinations2(ASPECT_PLANETS),
                             [hard_aspects_count |-> 0, personal_hard |-> 0,
                              weighted_hard_score |-> 0, hard_aspect_to_mars |-> 0], lon)
        interaction_merc_mars ==
            IF is_retro_mercury = 1 /\ loop.hard_aspect_to_mars = 1 THEN 1 ELSE 0
    IN  [loop                        |-> loop,
         hard_aspects_cat            |-> bin_hard(loop.hard_aspects_count),
         pp_hard_aspects_cat         |-> bin_hard(loop.personal_hard),
         astro_weighted_aspects_cat  |-> bin_weighted_hard(loop.weighted_hard_score),
         astro_interaction_merc_mars |-> yesno(interaction_merc_mars = 1)]

Aspects ==
    /\ pc = "aspects"
    /\ astro_ret' = [key |-> <<>>, val |-> hard_aspects(sky.lon, sky.speed), hit |-> FALSE]
    /\ pc' = "aspects_done"
    /\ UNCHANGED <<df, ru_hol, cal_df, wth_arg, mag_file, wx_vars, news_vars, sky, astro_cache>>

\* Longitudes that put pairs 6, 8 and 9 degrees from a square or an opposition,
\* one of them across the 0/360 seam
LonValues == {0, 96, 188, 279}

LonChoices ==
    [b \in Bodies |->
        IF b \in {"Sun", "Mercury", "Mars", "Jupiter", "Saturn"} THEN LonValues ELSE {0, 188}]

InitAspects ==
    /\ pc = "aspects"
    /\ df = <<>>
    /\ ru_hol = {}
    /\ cal_df = <<>>
    /\ wth_arg = <<>>
    /\ mag_file = NoMagFile
    /\ NoWeatherLoop
    /\ NoNews
    /\ \E lon \in [Bodies -> LonValues], v \in {0 - 1, 1} :
          /\ \A b \in Bodies : lon[b] \in LonChoices[b]
          /\ sky = [lon |-> lon, speed |-> [b \in {"Mercury"} |-> v]]
    /\ astro_cache = NoAstroCache
    /\ astro_ret = [key |-> <<>>, val |-> <<>>, hit |-> FALSE]

NextAspects == Aspects

\* The aspect loop over assignments of longitudes to the ten bodies
SpecAspects == InitAspects /\ [][NextAspects]_vars

\* The unordered pairs of the ten bodies
UnorderedPairs == {P \in SUBSET Bodies : Cardinality(P) = 2}

\* A pair is a hard aspect: its shorter arc is within the orb of 90 or of 180
HardPair(P, lon) ==
    LET a   == CHOOSE x \in P : TRUE
        b   == CHOOSE x \in P : x # a
        d   == (lon[a] - lon[b]) % 360
        arc == IF d <= 180 THEN d ELSE 360 - d
        orb == IF P \cap {"Sun", "Moon"} # {} THEN 8 ELSE 6
    IN  \/ (90 - orb <= arc /\ arc <= 90 + orb)
        \/ 180 - orb <= arc

\* C27: the loop visits each of the 45 unordered pairs once; a pair counts as
\* hard iff its minimal separation is within the orb of 90 or 180 (orb 8 with Sun
\* or Moon, else 6); the personal count takes the hard pairs inside {Sun, Moon,
\* Mercury, Venus, Mars}; the weighted score adds 2 for a hard pair with Saturn,
\* Uranus, Neptune or Pluto and 1 for any other; the Mercury-Mars flag is 'da'
\* iff Mercury's speed is negative and some hard pair contains Mars
C27_HardAspectLoop ==
    LET pairs == combinations2(ASPECT_PLANETS)
    IN  /\ Len(pairs) = 45
        /\ {{pairs[k][1], pairs[k][2]} : k \in DOMAIN pairs} = UnorderedPairs
        /\ Cardinality(UnorderedPairs) = 45
        /\ pc = "aspects_done" =>
              LET r     == astro_ret.val
                  hard  == {P \in UnorderedPairs : HardPair(P, sky.lon)}
                  heavy == {P \in hard : P \cap HEAVY_PLANETS # {}}
              IN  /\ r.loop.hard_aspects_count = Cardinality(hard)
                  /\ r.loop.personal_hard =
                         Cardinality({P \in hard : P \subseteq PERSONAL_PLANETS})
                  /\ r.loop.weighted_hard_score =
                         2 * Cardinality(heavy) + Cardinality(hard \ heavy)
                  /\ r.astro_interaction_merc_mars = "da" <=>
                         (sky.speed["Mercury"] < 0 /\ \E P \in hard : "Mars" \in P)

\* A luminary pair 8 degrees off, a planet pair 8 degrees off (not counted), a
\* heavy pair and a hard pair with Mars under a retrograde Mercury
C27_Witness ==
    /\ pc = "aspects_done"
    /\ aspect_angle(sky.lon["Sun"], sky.lon["Moon"]) = 172
    /\ aspect_angle(sky.lon["Mercury"], sky.lon["Venus"]) = 172
    /\ aspect_angle(sky.lon["Mars"], sky.lon["Saturn"]) = 96
    /\ sky.speed["Mercury"] < 0
    /\ astro_ret.val.astro_interaction_merc_mars = "da"
    /\ astro_ret.val.loop.weighted_hard_score > astro_ret.val.loop.hard_aspects_count
    /\ astro_ret.val.loop.personal_hard < astro_ret.val.loop.hard_aspects_count

-----------------------------------------------------------------------------
\* The separation of two bodies

Longitudes == 0..359

Separation ==
    /\ pc = "separation"
    /\ astro_ret' = [key |-> <<>>, val |-> [angle |-> aspect_angle(sky.lon1, sky.lon2)],
                     hit |-> FALSE]
    /\ pc' = "separated"
    /\ UNCHANGED <<df, ru_hol, cal_df, wth_arg, mag_file, wx_vars, news_vars, sky, astro_cache>>

InitSeparation ==
    /\ pc = "separation"
    /\ df = <<>>
    /\ ru_hol = {}
    /\ cal_df = <<>>
    /\ wth_arg = <<>>
    /\ mag_file = NoMagFile
    /\ NoWeatherLoop
    /\ NoNews
    /\ sky \in [lon1 : Longitudes, lon2 : Longitudes]
    /\ astro_cache = NoAstroCache
    /\ astro_ret = [key |-> <<>>, val |-> <<>>, hit |-> FALSE]

NextSeparation == Separation

\* The separation of every pair of whole-degree longitudes
SpecSeparation == InitSeparation /\ [][NextSeparation]_vars

\* C28: for longitudes in [0, 360) the separation lies in [0, 180], is the same
\* with the two bodies swapped, and is the length of the shorter of the two arcs
\* between them
C28_SeparationIsShorterArc ==
    pc = "separated" =>
        LET angle == astro_ret.val.angle
            fwd   == (sky.lon1 - sky.lon2) % 360
            back  == (sky.lon2 - sky.lon1) % 360
        IN  /\ angle \in 0..180
            /\ angle = aspect_angle(sky.lon2, sky.lon1)
            /\ angle \in {fwd, back}
            /\ angle <= fwd /\ angle <= back

C28_Witness ==
    /\ pc = "separated"
    /\ sky.lon1 = 10
    /\ sky.lon2 = 350
    /\ astro_ret.val.angle = 20

-----------------------------------------------------------------------------
\* The rolling weather counts over two regions

InitWeatherRegions ==
    /\ pc = "start"
    /\ df \in [1..WxRecs -> RawRows(D_Mar07, D_Mar07 + 1, {12}, InRegions)]
    /\ ru_hol = {D_Mar07 + 1}
    /\ cal_df = <<>>
    /\ wth_arg = <<>>
    /\ mag_file = NoMagFile
    /\ NoWeatherLoop
    /\ NoNews
    /\ NoAstro

\* The pipeline up to the weather categories over records of noon, so that a
\* region and a local day have one Moscow day
SpecWeatherRegions == InitWeatherRegions /\ [][NextWeatherCats]_vars

\* The first local day of a region in the table
FirstDayOf(t, region) ==
    SetMin({t[i].day_local : i \in {j \in 1..Len(t) : t[j].region_std = region}})

\* C29: the rolling 5-day categories of a (region R, day) depend only on the
\* flags of earlier days of R: with the weather (hence the flags) of a day of
\* any other region replaced, the rows of R keep their rolling categories, and
\* the rows of the first day of every region carry the count 0
C29_RollingCountsPerRegion ==
    pc = "weather" =>
        /\ \A own \in KeysOf(wth_arg) : \A other \in KeysOf(wth_arg) :
              other[1] # own[1] =>
                  \A kind \in WeatherKinds :
                      Last5Of(add_weather_compact_cats(SetWeather(wth_arg, other, kind)), own)
                          = Last5Of(df, own)
        /\ \A i \in 1..Len(df) :
              df[i].day_local = FirstDayOf(df, df[i].region_std)
                  => /\ df[i].wth_bad_weather_last5_cat = "0 dney"
                     /\ df[i].wth_extreme_temp_last5_cat = "0 dney"

\* C30: the weather step returns one row per record it was given, also for
\* records of one region and one local day that fall on two Moscow days
C30_OneRowPerRecord ==
    pc = "weather" =>
        /\ Len(df) = Len(wth_arg)
        /\ \A i \in 1..Len(wth_arg) :
              Cardinality({j \in 1..Len(df) :
                              /\ df[j].business_dt = wth_arg[i].business_dt
                              /\ df[j].region = wth_arg[i].region})
                  = Cardinality({j \in 1..Len(wth_arg) :
                              /\ wth_arg[j].business_dt = wth_arg[i].business_dt
                              /\ wth_arg[j].region = wth_arg[i].region})

=============================================================================
